---- MODULE Spec2Model ----
(***************************************************************************)
(* Verification model of the OTTL statement language engine (pkg/ottl), of *)
(* the resource path accessors (pkg/ottl/contexts/internal/ottlcommon), of *)
(* the Prometheus remote-write helpers (pkg/translator/                    *)
(* prometheusremotewrite) and of the attribute matcher (filtermatcher).    *)
(*                                                                         *)
(*   SpecBind    path resolution: ResourcePathGetSetter                    *)
(*   SpecAccess  a bound GetSetter used by concurrent workers              *)
(*   SpecCapture compareOp.Capture, the operator table of the grammar      *)
(*   SpecParse   the where-clause grammar: booleanExpression and below     *)
(*   SpecEval    statements executed against the records of a batch        *)
(*   SpecLex     the lexer: rules tried in declaration order               *)
(*   SpecText    a statement text lexed and then parsed                    *)
(*   SpecSeries  addSample and timeSeriesSignature on one tsMap            *)
(*   SpecHistogram addSingleHistogramDataPoint on one data point           *)
(*   SpecMatch   AttributesMatcher.Match                                   *)
(*   SpecExemplars addExemplars on the bucket series of a histogram        *)
(*   SpecAttributes createAttributes, statement by statement               *)
(*   SpecClone   createAttributes called concurrently on one map           *)
(***************************************************************************)
EXTENDS Integers, Sequences, FiniteSets, TLC

VARIABLES
    \* ---- path resolution (SpecBind)
    path,        \* the []ottl.Field last handed to ResourcePathGetSetter
    gs,          \* the GetSetter it returned (NoGetSetter when nil)
    bindErr,     \* the error it returned (NIL when nil)
    bound,       \* TRUE once ResourcePathGetSetter has returned
    calls,       \* Get/Set calls made through gs since it was returned
    \* ---- records and workers (SpecAccess)
    resAttrs,    \* resource -> the map object its Attributes() refers to
    resDropped,  \* resource -> DroppedAttributesCount (uint32)
    maps,        \* map object -> its entries, an ordered slice of KeyValue
    pc,          \* worker -> "idle" | "set" (inside a Setter call)
    arg,         \* worker -> the val argument of the Setter call in progress
    got,         \* worker -> what its last Getter call returned
    last,        \* worker -> its last completed Setter call
    alone,       \* worker -> the heap reached by that worker's calls alone
    mutations,   \* mutations the caller has made to its own map
    heap0,       \* the heap as constructed
    gs0,         \* the GetSetter as bound
    \* ---- compareOp.Capture (SpecCapture)
    op,          \* the compareOp that Capture writes through its receiver
    opBefore,    \* its value when the last Capture was entered
    capText,     \* values[0] of the last Capture
    capErr,      \* the error the last Capture returned
    captures,    \* Capture calls so far
    \* ---- parsing a where-clause (SpecParse)
    input,       \* the token stream handed to the parser
    parsed,      \* TRUE once the parser has returned
    ast,         \* what it returned: [ok, node], node a booleanExpression
    \* ---- executing statements (SpecEval)
    statements,  \* the configured statements, parsed: a list of parsedStatement
    records,     \* the batch: record -> its fields
    records0,    \* the batch as the driver received it
    next,        \* record -> how many statements have been executed on it
    errors,      \* the <<record, statement>> pairs an error was reported for
    evaluated,   \* the <<record, statement>> pairs Execute was called for
    lastExec,    \* the last Execute: its record, statement, effect and calls
    \* ---- lexing and parsing a statement's text (SpecLex, SpecText)
    source,      \* the text handed to the lexer, a sequence of characters
    lexPos,      \* the lexer's position in it
    lexToks,     \* the tokens emitted so far
    lexStarts,   \* the position each of them starts at
    lexErr,      \* TRUE once the lexer has failed on the text
    stmtParsed,  \* TRUE once the parser has returned
    stmtAst,     \* what it returned: [ok, node], node a parsedStatement
    \* ---- time series and histogram data points (SpecSeries, SpecHistogram)
    tsNil,       \* TRUE when tsMap is the nil map
    tsMap,       \* signature -> TimeSeries: its Labels, Samples and Exemplars
    tsMap0,      \* tsMap when addSingleHistogramDataPoint was called
    addCalls,    \* calls of addSample so far
    addLog,      \* the calls among them whose arguments were all non-nil, in order
    lastAdd,     \* the last call of addSample: arguments, result, tsMap before it
    pt,          \* the histogram data point handed to addSingleHistogramDataPoint
    histPc,      \* where addSingleHistogramDataPoint stands
    histI,       \* its loop variable i
    cumulativeCount, \* its cumulativeCount
    bucketBounds, \* its bucketBounds
    emitted,     \* the samples it has handed to addSample, in order
    \* ---- AttributesMatcher.Match (SpecMatch)
    ma,          \* the AttributesMatcher: its AttributeMatcher entries
    attrs,       \* the pcommon.Map handed to Match
    matchPc,     \* where Match stands: "start", "loop", "done"
    matchI,      \* entries of ma the loop has passed
    matchResult, \* what Match returned
    \* ---- addExemplars called on its own (SpecExemplars)
    promExemplars, \* the exemplars handed to addExemplars
    passedBounds, \* bucketBoundsData as the caller passed it
    exPc,        \* "call" before addExemplars, "done" after it
    \* ---- createAttributes, by one caller or several at once (SpecAttributes, SpecClone)
    caMaps,      \* the pcommon.Maps by reference: the attributes, the resource's, each caller's clone
    caExternal,  \* externalLabels, the Go map of the settings
    caExtras,    \* caller -> its extras
    caPc,        \* caller -> where it stands in createAttributes, "off" when not calling
    caL,         \* caller -> its map l
    caResult     \* caller -> the slice it returned

bindVars == <<path, gs, bindErr, bound, calls>>
heapVars == <<resAttrs, resDropped, maps>>
workVars == <<pc, arg, got, last, alone, mutations, heap0, gs0>>
capVars == <<op, opBefore, capText, capErr, captures>>
parseVars == <<input, parsed, ast>>
evalVars == <<statements, records, records0, next, errors, evaluated, lastExec>>
lexVars == <<source, lexPos, lexToks, lexStarts, lexErr, stmtParsed, stmtAst>>
seriesVars == <<tsNil, tsMap, tsMap0, addCalls, addLog, lastAdd, pt, histPc, histI, cumulativeCount, bucketBounds, emitted>>
matchVars == <<ma, attrs, matchPc, matchI, matchResult>>
exemplarsVars == <<promExemplars, passedBounds, exPc>>
attrsVars == <<caMaps, caExternal, caExtras, caPc, caL, caResult>>
vars == <<bindVars, heapVars, workVars, capVars, parseVars, evalVars, lexVars, seriesVars, matchVars, exemplarsVars, attrsVars>>

\* what the actions of one specification leave alone
notResource == <<capVars, parseVars, evalVars, lexVars, seriesVars, matchVars, exemplarsVars, attrsVars>>
notCapture == <<bindVars, heapVars, workVars, parseVars, evalVars, lexVars, seriesVars, matchVars, exemplarsVars, attrsVars>>
notParse == <<bindVars, heapVars, workVars, capVars, evalVars, lexVars, seriesVars, matchVars, exemplarsVars, attrsVars>>
notEval == <<bindVars, heapVars, workVars, capVars, parseVars, lexVars, seriesVars, matchVars, exemplarsVars, attrsVars>>
notLex == <<bindVars, heapVars, workVars, capVars, parseVars, evalVars, seriesVars, matchVars, exemplarsVars, attrsVars>>
notSeries == <<bindVars, heapVars, workVars, capVars, parseVars, evalVars, lexVars, matchVars, exemplarsVars, attrsVars>>
notMatch == <<bindVars, heapVars, workVars, capVars, parseVars, evalVars, lexVars, seriesVars, exemplarsVars, attrsVars>>
notExemplars == <<bindVars, heapVars, workVars, capVars, parseVars, evalVars, lexVars, seriesVars, matchVars, attrsVars>>
notAttrs == <<bindVars, heapVars, workVars, capVars, parseVars, evalVars, lexVars, seriesVars, matchVars, exemplarsVars>>

NIL == "nil"

----------------------------------------------------------------------------
(* Bounds *)

MaxPathLen == 2      \* longest path handed to ResourcePathGetSetter
NumWorkers == 2      \* concurrent workers, one context each
MaxCalls == 2        \* calls made through one bound GetSetter
MaxMutations == 1    \* later mutations of a caller-owned map
MaxCaptures == 3     \* Capture calls on one compareOp
MaxTokens == 5       \* longest token stream enumerated token by token
UintModulus == 256   \* uint32 arithmetic is modelled modulo this (2^32 in the code)

----------------------------------------------------------------------------
(* ottl.Field and paths *)

MapKeys == {"k1", "k2"}
FieldNames == {"attributes", "dropped_attributes_count", "name"}

\* Field{Name, MapKey *string}; a nil MapKey is NIL
Field == [Name : FieldNames, MapKey : MapKeys \cup {NIL}]

RECURSIVE SeqsUpTo(_, _)
SeqsUpTo(S, n) ==
    IF n = 0 THEN {<<>>}
    ELSE LET shorter == SeqsUpTo(S, n - 1)
         IN shorter \cup {Append(s, x) : s \in {t \in shorter : Len(t) = n - 1}, x \in S}

Paths == SeqsUpTo(Field, MaxPathLen)

----------------------------------------------------------------------------
(* GetSetters.  A StandardGetSetter is a pair of closures; it is identified *)
(* by the function that built it and the mapKey that function captured.     *)

NoGetSetter == [kind |-> "nil", mapKey |-> NIL]
accessResource == [kind |-> "resource", mapKey |-> NIL]
accessResourceAttributes == [kind |-> "attributes", mapKey |-> NIL]
accessResourceAttributesKey(mapKey) == [kind |-> "attributesKey", mapKey |-> mapKey]
accessResourceDroppedAttributesCount == [kind |-> "droppedAttributesCount", mapKey |-> NIL]

InvalidPath == "invalid resource path expression"

\* a switch that falls through to the whole-resource accessor
ResourcePathGetSetterNoDefault(p) ==
    IF Len(p) = 0 THEN [gs |-> accessResource, err |-> NIL]
    ELSE CASE p[1].Name = "attributes" ->
                IF p[1].MapKey = NIL
                THEN [gs |-> accessResourceAttributes, err |-> NIL]
                ELSE [gs |-> accessResourceAttributesKey(p[1].MapKey), err |-> NIL]
           [] p[1].Name = "dropped_attributes_count" ->
                [gs |-> accessResourceDroppedAttributesCount, err |-> NIL]
           [] OTHER -> [gs |-> accessResource, err |-> NIL]

ResourcePathGetSetter(p) ==
    IF Len(p) = 0 THEN [gs |-> accessResource, err |-> NIL]
    ELSE CASE p[1].Name = "attributes" ->
                IF p[1].MapKey = NIL
                THEN [gs |-> accessResourceAttributes, err |-> NIL]
                ELSE [gs |-> accessResourceAttributesKey(p[1].MapKey), err |-> NIL]
           [] p[1].Name = "dropped_attributes_count" ->
                [gs |-> accessResourceDroppedAttributesCount, err |-> NIL]
           [] OTHER -> [gs |-> NoGetSetter, err |-> InvalidPath]

----------------------------------------------------------------------------
(* Records.  A pcommon.Map is a reference to an ordered slice of KeyValue;   *)
(* a pcommon.Resource owns one such map and a dropped-attributes counter.    *)

Workers == 1 .. NumWorkers
FreeRes == NumWorkers + 1          \* a resource owned by the caller
FreeMap == NumWorkers + 2          \* a map owned by the caller
ResIds == Workers \cup {FreeRes}
MapIds == ResIds \cup {FreeMap}    \* resource r is created with map object r

\* interface{} values handed to Set and returned by Get
Val(kind, n) == [kind |-> kind, n |-> n]
NilVal == Val("nil", 0)

\* pcommon.Value of an attribute
AttrValue(type, n) == [type |-> type, n |-> n]
KeyValue(k, v) == [Key |-> k, Value |-> v]


\* pcommon.Map.Get
MapHas(entries, k) == \E i \in 1 .. Len(entries) : entries[i].Key = k
MapGet(entries, k) ==
    entries[CHOOSE i \in 1 .. Len(entries) : entries[i].Key = k].Value

\* pcommon.Map.PutEmpty followed by Value.CopyTo: update in place or append
MapPut(entries, k, v) ==
    IF MapHas(entries, k)
    THEN [i \in 1 .. Len(entries) |->
            IF entries[i].Key = k THEN KeyValue(k, v) ELSE entries[i]]
    ELSE Append(entries, KeyValue(k, v))

\* GetMapValue: nil for a missing key, else the Go value of the attribute
GetMapValue(entries, mapKey) ==
    IF ~MapHas(entries, mapKey) THEN NilVal
    ELSE LET v == MapGet(entries, mapKey)
         IN CASE v.type = "Str" -> Val("string", v.n)
              [] v.type = "Int" -> Val("int64", v.n)
              [] OTHER -> NilVal

\* SetMapValue: a pcommon.Value built from the Go value, put under mapKey
SetMapValue(entries, mapKey, val) ==
    LET value == CASE val.kind = "string" -> AttrValue("Str", val.n)
                   [] val.kind = "int64" -> AttrValue("Int", val.n)
                   [] OTHER -> AttrValue("Empty", 0)
    IN MapPut(entries, mapKey, value)

\* The heap as one value: [attrs, dropped, maps]
Heap(a, d, m) == [attrs |-> a, dropped |-> d, maps |-> m]

\* pcommon.Map.CopyTo: dest's slice becomes a copy of src's entries
MapCopyTo(h, src, dest) == [h EXCEPT !.maps[dest] = h.maps[src]]

\* pcommon.Map.CopyTo written as a pointer assignment
MapSwapRef(h, src, r) == [h EXCEPT !.attrs[r] = src]

\* pcommon.Resource.CopyTo: attributes and dropped count
ResourceCopyTo(h, src, dest) ==
    [MapCopyTo(h, h.attrs[src], h.attrs[dest]) EXCEPT !.dropped[dest] = h.dropped[src]]

\* StandardGetSetter.Get on the context of resource r
Getter(g, h, r) ==
    CASE g.kind = "resource" -> Val("resource", r)
      [] g.kind = "attributes" -> Val("map", h.attrs[r])
      [] g.kind = "attributesKey" -> GetMapValue(h.maps[h.attrs[r]], g.mapKey)
      [] g.kind = "droppedAttributesCount" -> Val("int64", h.dropped[r])
      [] OTHER -> NilVal

\* accessResource: Setter
SetResource(h, r, val) ==
    IF val.kind = "resource" THEN ResourceCopyTo(h, val.n, r) ELSE h

\* a Setter of `attributes` that stores the reference it was given
SetAttributesSwapRef(h, r, val) ==
    IF val.kind = "map" THEN MapSwapRef(h, val.n, r) ELSE h

\* accessResourceAttributes: Setter
SetAttributes(h, r, val) ==
    IF val.kind = "map" THEN MapCopyTo(h, val.n, h.attrs[r]) ELSE h

\* a Setter of `attributes[key]` that writes the record of the first worker
SetAttributesKeyFirstCtx(h, r, mapKey, val) ==
    [h EXCEPT !.maps[h.attrs[1]] = SetMapValue(@, mapKey, val)]

\* accessResourceAttributesKey: Setter
SetAttributesKey(h, r, mapKey, val) ==
    [h EXCEPT !.maps[h.attrs[r]] = SetMapValue(@, mapKey, val)]

\* accessResourceDroppedAttributesCount: Setter
SetDroppedAttributesCount(h, r, val) ==
    IF val.kind = "int64" THEN [h EXCEPT !.dropped[r] = val.n % UintModulus] ELSE h

\* StandardGetSetter.Set on the context of resource r
Setter(g, h, r, val) ==
    CASE g.kind = "resource" -> SetResource(h, r, val)
      [] g.kind = "attributes" -> SetAttributes(h, r, val)
      [] g.kind = "attributesKey" -> SetAttributesKey(h, r, g.mapKey, val)
      [] g.kind = "droppedAttributesCount" -> SetDroppedAttributesCount(h, r, val)
      [] OTHER -> h

----------------------------------------------------------------------------
(* State shared by the specifications *)

TheHeap == Heap(resAttrs, resDropped, maps)

\* entries the records are created with
FreeEntries == <<KeyValue("k2", AttrValue("Int", 7))>>

ResEntries == <<KeyValue("k2", AttrValue("Str", 3))>>

\* worker w's record starts with w - 1 dropped attributes; odd workers start
\* with an attribute, even ones with none
InitHeap ==
    /\ resAttrs = [r \in ResIds |-> r]
    /\ resDropped = [r \in ResIds |-> r - 1]
    /\ maps = [m \in MapIds |->
                 IF m = FreeMap THEN FreeEntries
                 ELSE IF m = FreeRes THEN ResEntries
                 ELSE IF m % 2 = 1 THEN <<KeyValue("k1", AttrValue("Str", 1))>>
                 ELSE <<>>]

NoCall == [val |-> NilVal, src |-> <<>>, srcAfter |-> <<>>, done |-> FALSE]

IdleCapture ==
    /\ op = 0
    /\ opBefore = 0
    /\ capText = ""
    /\ capErr = NIL
    /\ captures = 0

IdleParse ==
    /\ input = <<>>
    /\ parsed = FALSE
    /\ ast = [ok |-> FALSE, node |-> <<>>]

NoExec ==
    [rec |-> 0, stmt |-> 0, before |-> <<>>, after |-> <<>>, cond |-> "none",
     invoked |-> 0, calls |-> <<>>, err |-> FALSE]

IdleEval ==
    /\ statements = <<>>
    /\ records = <<>>
    /\ records0 = <<>>
    /\ next = <<>>
    /\ errors = {}
    /\ evaluated = {}
    /\ lastExec = NoExec

IdleLex ==
    /\ source = <<>>
    /\ lexPos = 0
    /\ lexToks = <<>>
    /\ lexStarts = <<>>
    /\ lexErr = FALSE
    /\ stmtParsed = FALSE
    /\ stmtAst = [ok |-> FALSE, node |-> <<>>]

IdleSeries ==
    /\ tsNil = FALSE
    /\ tsMap = <<>>
    /\ tsMap0 = <<>>
    /\ addCalls = 0
    /\ addLog = <<>>
    /\ lastAdd = <<>>
    /\ pt = <<>>
    /\ histPc = "idle"
    /\ histI = 0
    /\ cumulativeCount = 0
    /\ bucketBounds = <<>>
    /\ emitted = <<>>

IdleMatch ==
    /\ ma = <<>>
    /\ attrs = <<>>
    /\ matchPc = "idle"
    /\ matchI = 0
    /\ matchResult = FALSE

IdleExemplars ==
    /\ promExemplars = <<>>
    /\ passedBounds = <<>>
    /\ exPc = "idle"

IdleAttrs ==
    /\ caMaps = <<>>
    /\ caExternal = <<>>
    /\ caExtras = <<>>
    /\ caPc = <<>>
    /\ caL = <<>>
    /\ caResult = <<>>

IdleWorkers ==
    /\ pc = [w \in Workers |-> "idle"]
    /\ arg = [w \in Workers |-> NilVal]
    /\ got = [w \in Workers |-> NilVal]
    /\ last = [w \in Workers |-> NoCall]
    /\ alone = [w \in Workers |-> TheHeap]
    /\ mutations = 0
    /\ heap0 = TheHeap
    /\ gs0 = gs

----------------------------------------------------------------------------
(* SpecBind: ResourcePathGetSetter is called on a path; the caller then     *)
(* uses the GetSetter it got, if it got one.                                *)

InitBind ==
    /\ IdleAttrs
    /\ IdleExemplars
    /\ IdleMatch
    /\ IdleSeries
    /\ IdleLex
    /\ path = <<>>
    /\ gs = NoGetSetter
    /\ bindErr = NIL
    /\ bound = FALSE
    /\ calls = 0
    /\ InitHeap
    /\ IdleWorkers
    /\ IdleCapture
    /\ IdleParse
    /\ IdleEval

Bind(p) ==
    /\ path' = p
    /\ gs' = ResourcePathGetSetter(p).gs
    /\ bindErr' = ResourcePathGetSetter(p).err
    /\ bound' = TRUE
    /\ calls' = 0
    /\ got' = [w \in Workers |-> NilVal]
    /\ gs0' = ResourcePathGetSetter(p).gs
    /\ UNCHANGED <<heapVars, pc, arg, last, alone, mutations, heap0, notResource>>

\* the caller of ResourcePathGetSetter calls Get(ctx) through what it returned
UseGet(w) ==
    /\ bound
    /\ gs # NoGetSetter
    /\ pc[w] = "idle"
    /\ calls < MaxCalls
    /\ calls' = calls + 1
    /\ got' = [got EXCEPT ![w] = Getter(gs, TheHeap, w)]
    /\ UNCHANGED <<path, gs, bindErr, bound, heapVars, pc, arg, last, alone, mutations, heap0, gs0, notResource>>

BindAny == \E p \in Paths : Bind(p)
UseAny == \E w \in Workers : UseGet(w)

NextBind == BindAny \/ UseAny

SpecBind == InitBind /\ [][NextBind]_vars

KnownFields == {"attributes", "dropped_attributes_count"}

\* C3: a non-empty path whose first field name the resource context does not
\* declare yields an error and no GetSetter, and nothing is called through it.
C3_UnknownFieldFailsAtBind ==
    (bound /\ Len(path) > 0 /\ path[1].Name \notin KnownFields)
        => (bindErr # NIL /\ gs = NoGetSetter /\ calls = 0
            /\ \A w \in Workers : got[w] = NilVal)

C3_Witness ==
    /\ bound
    /\ Len(path) > 0
    /\ path[1].Name = "name"
    /\ bindErr = InvalidPath

\* C4: a map key supplied against the scalar field dropped_attributes_count
\* makes ResourcePathGetSetter return an error instead of a GetSetter.
C4_MapKeyOnScalarFails ==
    (bound /\ Len(path) = 1 /\ path[1].Name = "dropped_attributes_count"
        /\ path[1].MapKey # NIL)
        => (bindErr # NIL /\ gs = NoGetSetter)

\* C5: a path whose first field is recognised but which carries further
\* fields is rejected with an error, never bound to the accessor of its prefix.
C5_LongerPathFails ==
    (bound /\ Len(path) > 1 /\ path[1].Name \in KnownFields)
        => (bindErr # NIL /\ gs = NoGetSetter)

----------------------------------------------------------------------------
(* SpecAccess: a GetSetter bound once at startup is invoked by concurrent   *)
(* workers, each on the context of its own record.  A Setter call takes two *)
(* steps (the call is entered with its argument, then the closure body      *)
(* runs), so calls of different workers interleave.                         *)

\* the paths of the resource context: the resource, attributes, attributes[key]
\* and dropped_attributes_count
BindablePaths ==
    {p \in Paths :
        /\ Len(p) <= 1
        /\ ResourcePathGetSetter(p).err = NIL
        /\ Len(p) = 1 => (p[1].MapKey # NIL => p[1].Name = "attributes")}

InitAccess ==
    /\ IdleAttrs
    /\ IdleExemplars
    /\ IdleMatch
    /\ IdleSeries
    /\ IdleLex
    /\ \E p \in BindablePaths :
          /\ path = p
          /\ gs = ResourcePathGetSetter(p).gs
          /\ bindErr = ResourcePathGetSetter(p).err
    /\ bound = TRUE
    /\ calls = 0
    /\ InitHeap
    /\ IdleWorkers
    /\ IdleCapture
    /\ IdleParse
    /\ IdleEval

\* values the workers hand to Set
ArgVals ==
    {Val("map", FreeMap), Val("resource", FreeRes), Val("int64", -1), Val("string", 5)}

\* the entries a value refers to, for a map value
Entries(h, val) == IF val.kind = "map" THEN h.maps[val.n] ELSE <<>>

GetCall(w) ==
    /\ pc[w] = "idle"
    /\ calls < MaxCalls
    /\ calls' = calls + 1
    /\ got' = [got EXCEPT ![w] = Getter(gs, TheHeap, w)]
    /\ UNCHANGED <<path, gs, bindErr, bound, heapVars, pc, arg, last, alone, mutations, heap0, gs0, notResource>>

\* Set(ctx, val) is entered; val is a fresh value or what Get returned
SetEnter(w, val) ==
    /\ pc[w] = "idle"
    /\ calls < MaxCalls
    /\ calls' = calls + 1
    /\ pc' = [pc EXCEPT ![w] = "set"]
    /\ arg' = [arg EXCEPT ![w] = val]
    /\ UNCHANGED <<path, gs, bindErr, bound, heapVars, got, last, alone, mutations, heap0, gs0, notResource>>

\* the Setter closure runs on the worker's context
SetFinish(w) ==
    /\ pc[w] = "set"
    /\ LET h == Setter(gs, TheHeap, w, arg[w])
       IN /\ resAttrs' = h.attrs
          /\ resDropped' = h.dropped
          /\ maps' = h.maps
          /\ last' = [last EXCEPT ![w] =
                        [val |-> arg[w],
                         src |-> Entries(TheHeap, arg[w]),
                         srcAfter |-> Entries(h, arg[w]),
                         done |-> TRUE]]
          /\ alone' = [alone EXCEPT ![w] =
                        Setter(gs, [@ EXCEPT !.maps[FreeMap] = maps[FreeMap]], w, arg[w])]
    /\ pc' = [pc EXCEPT ![w] = "idle"]
    /\ arg' = [arg EXCEPT ![w] = NilVal]
    /\ UNCHANGED <<bindVars, got, mutations, heap0, gs0, notResource>>

\* the caller mutates the map it owns, outside any Set call that reads it
MutateFree(k, v) ==
    /\ mutations < MaxMutations
    /\ \A w \in Workers : pc[w] = "set" => arg[w] # Val("map", FreeMap)
    /\ mutations' = mutations + 1
    /\ maps' = [maps EXCEPT ![FreeMap] = MapPut(@, k, v)]
    /\ UNCHANGED <<bindVars, resAttrs, resDropped, pc, arg, got, last, alone, heap0, gs0, notResource>>

GetStep == \E w \in Workers : GetCall(w)
SetEnterStep == \E w \in Workers : \E val \in ArgVals \cup {got[w]} : SetEnter(w, val)
SetFinishStep == \E w \in Workers : SetFinish(w)
MutateStep == \E k \in MapKeys : MutateFree(k, AttrValue("Int", 9))

NextAccess == GetStep \/ SetEnterStep \/ SetFinishStep \/ MutateStep

SpecAccess == InitAccess /\ [][NextAccess]_vars

\* what a record holds: the entries of its attribute map and its counter
Record(h, r) == [attrs |-> h.maps[h.attrs[r]], dropped |-> h.dropped[r]]

\* C6: Set on the whole `attributes` map copies the entries of the given map
\* m into the record's own map object: the record then holds exactly m's
\* entries as they were at the call, still refers to the map object it was
\* created with, m was not changed by the call, and the record keeps those
\* entries whatever happens to m afterwards.
C6_SetAttributesCopies ==
    gs.kind = "attributes" =>
        \A w \in Workers :
            (last[w].done /\ last[w].val.kind = "map") =>
                /\ resAttrs[w] = heap0.attrs[w]
                /\ maps[resAttrs[w]] = last[w].src
                /\ last[w].srcAfter = last[w].src

\* worker 1 has set its attributes from the caller's map, which dropped the
\* key k1 it had, and the caller has mutated its map since
C6_Witness ==
    /\ gs.kind = "attributes"
    /\ last[1].done
    /\ last[1].val = Val("map", FreeMap)
    /\ MapHas(heap0.maps[1], "k1")
    /\ ~MapHas(maps[resAttrs[1]], "k1")
    /\ maps[FreeMap] # last[1].src

\* C7: whatever the interleaving of the workers' Get and Set calls, each record
\* is in the state that its own worker's calls alone produce, and the bound
\* GetSetter is the one that was bound.
C7_CallsConfinedToOwnContext ==
    /\ gs = gs0
    /\ \A w \in Workers : Record(TheHeap, w) = Record(alone[w], w)

\* worker 2 has completed a Set that changed its record while worker 1 is
\* inside a Setter call of its own
C7_Witness ==
    /\ pc[1] = "set"
    /\ arg[1] # NilVal
    /\ last[2].done
    /\ Record(TheHeap, 2) # Record(heap0, 2)

----------------------------------------------------------------------------
(* compareOp: the operator of a comparison, captured from its token text   *)

EQ == 0
NE == 1
LT == 2
LTE == 3
GTE == 4
GT == 5

OpTexts == {"==", "!=", "<", "<=", ">", ">="}

\* texts that are no comparison operator
OtherTexts == {"=", "<>", "=>", "=<", "and", ""}

\* the table written in the order of the const block
compareOpTableInConstOrder ==
    [t \in OpTexts |->
        CASE t = "==" -> EQ [] t = "!=" -> NE [] t = "<" -> LT
          [] t = "<=" -> LTE [] t = ">" -> GTE [] t = ">=" -> GT]

compareOpTable ==
    [t \in OpTexts |->
        CASE t = "==" -> EQ [] t = "!=" -> NE [] t = "<" -> LT
          [] t = "<=" -> LTE [] t = ">" -> GT [] t = ">=" -> GTE]

\* (*compareOp).String
String(c) ==
    CASE c = EQ -> "EQ"
      [] c = NE -> "NE"
      [] c = LT -> "LT"
      [] c = LTE -> "LTE"
      [] c = GTE -> "GTE"
      [] c = GT -> "GT"
      [] OTHER -> "UNKNOWN OP!"

NotAnOperator == "is not a valid operator"

\* (*compareOp).Capture: [c |-> the receiver afterwards, err |-> the error]
Capture(c, text) ==
    IF text \in DOMAIN compareOpTable
    THEN [c |-> compareOpTable[text], err |-> NIL]
    ELSE [c |-> c, err |-> NotAnOperator]

InitCapture ==
    /\ IdleAttrs
    /\ IdleExemplars
    /\ IdleMatch
    /\ IdleSeries
    /\ IdleLex
    /\ path = <<>>
    /\ gs = NoGetSetter
    /\ bindErr = NIL
    /\ bound = FALSE
    /\ calls = 0
    /\ InitHeap
    /\ IdleWorkers
    /\ IdleCapture
    /\ IdleParse
    /\ IdleEval

\* the parser captures an operator text into a comparison's Op field
CaptureCall(text) ==
    /\ captures < MaxCaptures
    /\ captures' = captures + 1
    /\ opBefore' = op
    /\ capText' = text
    /\ op' = Capture(op, text).c
    /\ capErr' = Capture(op, text).err
    /\ UNCHANGED notCapture

CaptureOperator == \E text \in OpTexts : CaptureCall(text)
CaptureOther == \E text \in OtherTexts : CaptureCall(text)

NextCapture == CaptureOperator \/ CaptureOther

SpecCapture == InitCapture /\ [][NextCapture]_vars

\* the names the six operator texts are to be captured as
OperatorName(text) ==
    CASE text = "==" -> "EQ" [] text = "!=" -> "NE" [] text = "<" -> "LT"
      [] text = "<=" -> "LTE" [] text = ">" -> "GT" [] text = ">=" -> "GTE"
      [] OTHER -> "none"

\* C10: Capture of one of the six operator texts succeeds and leaves a
\* compareOp whose String() is the operator's name, different texts leaving
\* different compareOps; Capture of any other text returns an error and leaves
\* the compareOp as it was.
C10_CaptureMapsOperators ==
    captures > 0 =>
        /\ capText \in OpTexts =>
              /\ capErr = NIL
              /\ String(op) = OperatorName(capText)
              /\ \A t \in OpTexts \ {capText} : Capture(opBefore, t).c # op
        /\ capText \notin OpTexts =>
              /\ capErr # NIL
              /\ op = opBefore

\* ">=" has been captured, and then a text that is no operator
C10_Witness ==
    /\ captures > 1
    /\ capText = "=>"
    /\ capErr = NotAnOperator
    /\ op = GTE

----------------------------------------------------------------------------
(* The grammar.  The parser is built from the struct tags of the AST types: *)
(* a struct is the sequence of its fields, `|` is an ordered choice, `?` an  *)
(* optional group and `*` a repetition.  A choice, an optional group or a    *)
(* repetition gives up on a branch that fails, unless the branch failed more *)
(* than one token past the place where it started: then the parse fails.     *)
(* A nil pointer field is <<>>, a set one is <<v>>.                          *)

Token(type, text) == [type |-> type, text |-> text]
EOF == Token("EOF", "")
At(toks, i) == IF i \in 1 .. Len(toks) THEN toks[i] ELSE EOF

Ok(node, pos) == [ok |-> TRUE, node |-> node, pos |-> pos]
Fail(pos) == [ok |-> FALSE, node |-> <<>>, pos |-> pos]

\* a branch started at `start` failed at `pos`, beyond the lookahead
Stops(pos, start) == pos > start + 1

NoValue ==
    [Invocation |-> <<>>, Bytes |-> <<>>, String |-> <<>>, Float |-> <<>>,
     Int |-> <<>>, Bool |-> <<>>, IsNil |-> <<>>, Enum |-> <<>>, Path |-> <<>>]

NoBooleanValue == [Comparison |-> <<>>, ConstExpr |-> <<>>, SubExpr |-> <<>>]

\* boolean.Capture
CaptureBoolean(text) == text = "true"

IsName(t) == t.type \in {"Uppercase", "Lowercase"}

\* the name is one token
NameEndOneToken(toks, i) == IF IsName(At(toks, i)) THEN i + 1 ELSE i

\* @(Uppercase | Lowercase)+: the position after the name's tokens
RECURSIVE NameEnd(_, _)
NameEnd(toks, i) == IF IsName(At(toks, i)) THEN NameEnd(toks, i + 1) ELSE i

RECURSIVE JoinTexts(_, _, _)
JoinTexts(toks, i, j) == IF i >= j THEN "" ELSE toks[i].text \o JoinTexts(toks, i + 1, j)

\* Field: @Lowercase ( '[' @String ']' )?
ParseField(toks, i) ==
    IF At(toks, i).type # "Lowercase" THEN Fail(i)
    ELSE IF At(toks, i + 1).text # "[" THEN Ok([Name |-> toks[i].text, MapKey |-> NIL], i + 1)
    ELSE IF At(toks, i + 2).type # "String" THEN Ok([Name |-> toks[i].text, MapKey |-> NIL], i + 1)
    ELSE IF At(toks, i + 3).text # "]" THEN Fail(i + 3)
    ELSE Ok([Name |-> toks[i].text, MapKey |-> toks[i + 2].text], i + 4)

\* the value of a one-element set: Only({e(x) : x \in {d}}) is e(d), with d
\* evaluated once
Only(S) == CHOOSE x \in S : TRUE

\* ( '.' @@ )* of Path
RECURSIVE ParseMoreFields(_, _, _)
ParseMoreFields(toks, i, acc) ==
    IF At(toks, i).text # "." THEN Ok(acc, i)
    ELSE Only({IF f.ok THEN ParseMoreFields(toks, f.pos, Append(acc, f.node))
               ELSE IF Stops(f.pos, i) THEN Fail(f.pos)
               ELSE Ok(acc, i) : f \in {ParseField(toks, i + 1)}})

\* Path: @@ ( '.' @@ )*
ParsePath(toks, i) ==
    Only({IF ~f.ok THEN Fail(f.pos)
          ELSE Only({IF more.ok THEN Ok([Fields |-> more.node], more.pos)
                     ELSE Fail(more.pos) :
                        more \in {ParseMoreFields(toks, f.pos, <<f.node>>)}}) :
             f \in {ParseField(toks, i)}})

RECURSIVE ParseValue(_, _)
RECURSIVE ParseInvocation(_, _)
RECURSIVE ParseMoreArguments(_, _, _)

\* ( ',' @@ )* of invocation
ParseMoreArguments(toks, i, acc) ==
    IF At(toks, i).text # "," THEN Ok(acc, i)
    ELSE Only({IF v.ok THEN ParseMoreArguments(toks, v.pos, Append(acc, v.node))
               ELSE IF Stops(v.pos, i) THEN Fail(v.pos)
               ELSE Ok(acc, i) : v \in {ParseValue(toks, i + 1)}})

\* ( @@ ( ',' @@ )* )? of invocation, the '(' being at j
ParseArguments(toks, j) ==
    Only({IF first.ok THEN ParseMoreArguments(toks, first.pos, <<first.node>>)
          ELSE IF Stops(first.pos, j + 1) THEN Fail(first.pos)
          ELSE Ok(<<>>, j + 1) : first \in {ParseValue(toks, j + 1)}})

\* invocation: @(Uppercase | Lowercase)+ '(' ( @@ ( ',' @@ )* )? ')'
ParseInvocation(toks, i) ==
    Only({IF j = i THEN Fail(i)
          ELSE IF At(toks, j).text # "(" THEN Fail(j)
          ELSE Only({IF ~args.ok THEN Fail(args.pos)
                     ELSE IF At(toks, args.pos).text # ")" THEN Fail(args.pos)
                     ELSE Ok([Function |-> JoinTexts(toks, i, j), Arguments |-> args.node],
                             args.pos + 1) : args \in {ParseArguments(toks, j)}}) :
             j \in {NameEnd(toks, i)}})

\* value, from its second alternative on, with Path tried first
ParsePathOrLiteral(toks, i) ==
    Only({IF pth.ok THEN Ok([NoValue EXCEPT !.Path = <<pth.node>>], pth.pos)
          ELSE IF Stops(pth.pos, i) THEN Fail(pth.pos)
          ELSE IF At(toks, i).type \in {"Bytes", "String", "Float", "Int"}
               THEN Ok([NoValue EXCEPT ![At(toks, i).type] = <<At(toks, i).text>>], i + 1)
          ELSE IF At(toks, i).type = "Boolean"
               THEN Ok([NoValue EXCEPT !.Bool = <<CaptureBoolean(At(toks, i).text)>>], i + 1)
          ELSE IF At(toks, i).type = "Uppercase"
               THEN Ok([NoValue EXCEPT !.Enum = <<At(toks, i).text>>], i + 1)
          ELSE Fail(i) : pth \in {ParsePath(toks, i)}})

\* value, from its second alternative on
ParseLiteralOrPath(toks, i) ==
    LET t == At(toks, i)
    IN IF t.type = "Bytes" THEN Ok([NoValue EXCEPT !.Bytes = <<t.text>>], i + 1)
       ELSE IF t.type = "String" THEN Ok([NoValue EXCEPT !.String = <<t.text>>], i + 1)
       ELSE IF t.type = "Float" THEN Ok([NoValue EXCEPT !.Float = <<t.text>>], i + 1)
       ELSE IF t.type = "Int" THEN Ok([NoValue EXCEPT !.Int = <<t.text>>], i + 1)
       ELSE IF t.type = "Boolean"
            THEN Ok([NoValue EXCEPT !.Bool = <<CaptureBoolean(t.text)>>], i + 1)
       ELSE IF t.text = "nil" THEN Ok([NoValue EXCEPT !.IsNil = <<TRUE>>], i + 1)
       ELSE IF t.type = "Uppercase" THEN Ok([NoValue EXCEPT !.Enum = <<t.text>>], i + 1)
       ELSE Only({IF pth.ok THEN Ok([NoValue EXCEPT !.Path = <<pth.node>>], pth.pos)
                  ELSE IF Stops(pth.pos, i) THEN Fail(pth.pos)
                  ELSE Fail(i) : pth \in {ParsePath(toks, i)}})

\* value: the nine alternatives, in the order of the struct's fields
ParseValue(toks, i) ==
    Only({IF inv.ok THEN Ok([NoValue EXCEPT !.Invocation = <<inv.node>>], inv.pos)
          ELSE IF Stops(inv.pos, i) THEN Fail(inv.pos)
          ELSE ParseLiteralOrPath(toks, i) : inv \in {ParseInvocation(toks, i)}})

\* comparison: @@ @OpComparison @@
ParseComparison(toks, i) ==
    Only({IF ~l.ok THEN Fail(l.pos)
          ELSE IF At(toks, l.pos).type # "OpComparison" THEN Fail(l.pos)
          ELSE IF Capture(EQ, toks[l.pos].text).err # NIL THEN Fail(l.pos)
          ELSE Only({IF ~r.ok THEN Fail(r.pos)
                     ELSE Ok([Left |-> l.node, Op |-> Capture(EQ, toks[l.pos].text).c,
                              Right |-> r.node], r.pos) :
                        r \in {ParseValue(toks, l.pos + 1)}}) :
             l \in {ParseValue(toks, i)}})

\* the operator token that joins the booleanValues of a term
TermOperatorOr == "OpOr"
TermOperator == "OpAnd"

\* the operator token that joins the terms of a booleanExpression
ExpressionOperator == "OpOr"

RECURSIVE ParseBooleanValue(_, _)
RECURSIVE ParseMoreBooleanValues(_, _, _)
RECURSIVE ParseTerm(_, _)
RECURSIVE ParseMoreTerms(_, _, _)
RECURSIVE ParseBooleanExpression(_, _)

\* booleanValue, third alternative: '(' @@ ')'
ParseSubExpr(toks, i) ==
    IF At(toks, i).text # "(" THEN Fail(i)
    ELSE Only({IF e.ok /\ At(toks, e.pos).text = ")"
               THEN Ok([NoBooleanValue EXCEPT !.SubExpr = <<e.node>>], e.pos + 1)
               ELSE IF Stops(e.pos, i) THEN Fail(e.pos)
               ELSE Fail(i) : e \in {ParseBooleanExpression(toks, i + 1)}})

\* booleanValue: ( @@ | @Boolean | '(' @@ ')' )
ParseBooleanValue(toks, i) ==
    Only({IF c.ok THEN Ok([NoBooleanValue EXCEPT !.Comparison = <<c.node>>], c.pos)
          ELSE IF Stops(c.pos, i) THEN Fail(c.pos)
          ELSE IF At(toks, i).type = "Boolean"
               THEN Ok([NoBooleanValue EXCEPT
                           !.ConstExpr = <<CaptureBoolean(At(toks, i).text)>>], i + 1)
          ELSE ParseSubExpr(toks, i) : c \in {ParseComparison(toks, i)}})

\* term.Right: opAndBooleanValue*, each @OpAnd @@
ParseMoreBooleanValues(toks, i, acc) ==
    IF At(toks, i).type # TermOperator THEN Ok(acc, i)
    ELSE Only({IF v.ok
               THEN ParseMoreBooleanValues(toks, v.pos,
                        Append(acc, [Operator |-> toks[i].text, Value |-> v.node]))
               ELSE IF Stops(v.pos, i) THEN Fail(v.pos)
               ELSE Ok(acc, i) : v \in {ParseBooleanValue(toks, i + 1)}})

\* term: Left @@, Right @@*
ParseTerm(toks, i) ==
    Only({IF ~l.ok THEN Fail(l.pos)
          ELSE Only({IF more.ok THEN Ok([Left |-> l.node, Right |-> more.node], more.pos)
                     ELSE Fail(more.pos) :
                        more \in {ParseMoreBooleanValues(toks, l.pos, <<>>)}}) :
             l \in {ParseBooleanValue(toks, i)}})

\* booleanExpression.Right: opOrTerm*, each @OpOr @@
ParseMoreTerms(toks, i, acc) ==
    IF At(toks, i).type # ExpressionOperator THEN Ok(acc, i)
    ELSE Only({IF t.ok
               THEN ParseMoreTerms(toks, t.pos,
                        Append(acc, [Operator |-> toks[i].text, Term |-> t.node]))
               ELSE IF Stops(t.pos, i) THEN Fail(t.pos)
               ELSE Ok(acc, i) : t \in {ParseTerm(toks, i + 1)}})

\* booleanExpression: Left @@, Right @@*
ParseBooleanExpression(toks, i) ==
    Only({IF ~l.ok THEN Fail(l.pos)
          ELSE Only({IF more.ok THEN Ok([Left |-> l.node, Right |-> more.node], more.pos)
                     ELSE Fail(more.pos) :
                        more \in {ParseMoreTerms(toks, l.pos, <<>>)}}) :
             l \in {ParseTerm(toks, i)}})

\* the where-clause of a statement: the parse fails unless every token is used
ParseWhereClause(toks) ==
    Only({IF e.ok /\ e.pos = Len(toks) + 1
          THEN [ok |-> TRUE, node |-> e.node]
          ELSE [ok |-> FALSE, node |-> <<>>] : e \in {ParseBooleanExpression(toks, 1)}})

\* parsedStatement: Invocation @@, WhereClause ( 'where' @@ )?; the parse
\* fails unless every token is used
ParseStatement(toks) ==
    Only({IF ~inv.ok THEN [ok |-> FALSE, node |-> <<>>]
          ELSE IF At(toks, inv.pos).text # "where"
               THEN IF inv.pos = Len(toks) + 1
                    THEN [ok |-> TRUE,
                          node |-> [Invocation |-> inv.node, WhereClause |-> <<>>]]
                    ELSE [ok |-> FALSE, node |-> <<>>]
          ELSE Only({IF e.ok /\ e.pos = Len(toks) + 1
                     THEN [ok |-> TRUE,
                           node |-> [Invocation |-> inv.node, WhereClause |-> <<e.node>>]]
                     ELSE [ok |-> FALSE, node |-> <<>>] :
                        e \in {ParseBooleanExpression(toks, inv.pos + 1)}}) :
             inv \in {ParseInvocation(toks, 1)}})

----------------------------------------------------------------------------
(* SpecParse: a where-clause, as a token stream, is parsed once.            *)

TTrue == Token("Boolean", "true")
TFalse == Token("Boolean", "false")
TAnd == Token("OpAnd", "and")
TOr == Token("OpOr", "or")
TLParen == Token("LParen", "(")
TRParen == Token("RParen", ")")
TInt == Token("Int", "1")
TEq == Token("OpComparison", "==")

TokenAlphabet == {TTrue, TAnd, TOr, TLParen, TRParen, TInt, TEq}

\* token streams of some boolean values
BoolValueTexts ==
    {<<TTrue>>, <<TFalse>>, <<TInt, TEq, TInt>>, <<TLParen, TFalse, TOr, TTrue, TRParen>>}

AndOr(a, b, c) == a \o <<TAnd>> \o b \o <<TOr>> \o c
OrAnd(a, b, c) == a \o <<TOr>> \o b \o <<TAnd>> \o c

\* every short token stream, and `a and b or c`, `a or b and c` for the
\* boolean values above
WhereClauseInputs ==
    SeqsUpTo(TokenAlphabet, MaxTokens)
        \cup {AndOr(a, b, c) : a \in BoolValueTexts, b \in BoolValueTexts, c \in BoolValueTexts}
        \cup {OrAnd(a, b, c) : a \in BoolValueTexts, b \in BoolValueTexts, c \in BoolValueTexts}

InitParse ==
    /\ IdleAttrs
    /\ IdleExemplars
    /\ IdleMatch
    /\ IdleSeries
    /\ IdleLex
    /\ path = <<>>
    /\ gs = NoGetSetter
    /\ bindErr = NIL
    /\ bound = FALSE
    /\ calls = 0
    /\ InitHeap
    /\ IdleWorkers
    /\ IdleCapture
    /\ input \in WhereClauseInputs
    /\ parsed = FALSE
    /\ ast = [ok |-> FALSE, node |-> <<>>]
    /\ IdleEval

Parse ==
    /\ ~parsed
    /\ parsed' = TRUE
    /\ ast' = ParseWhereClause(input)
    /\ UNCHANGED <<input, notParse>>

NextParse == Parse

SpecParse == InitParse /\ [][NextParse]_vars

\* tokens of a type outside every pair of parentheses
RECURSIVE Depth(_, _)
Depth(toks, i) ==
    IF i <= 1 THEN 0
    ELSE Depth(toks, i - 1)
            + (IF toks[i - 1].text = "(" THEN 1 ELSE 0)
            - (IF toks[i - 1].text = ")" THEN 1 ELSE 0)

TopLevel(toks, type) ==
    {i \in 1 .. Len(toks) : toks[i].type = type /\ Depth(toks, i) = 0}

RECURSIVE SumLen(_, _)
SumLen(terms, k) ==
    IF k = 0 THEN 0 ELSE Len(terms[k].Term.Right) + SumLen(terms, k - 1)

\* the booleanValues of an expression that are sub-expressions, at any depth
RECURSIVE SubExprsOfValue(_)
RECURSIVE SubExprsOfTerm(_)
RECURSIVE SubExprsOfExpression(_)
RECURSIVE SubExprsOfValues(_, _)
RECURSIVE SubExprsOfTerms(_, _)
SubExprsOfValue(bv) ==
    IF bv.SubExpr = <<>> THEN 0 ELSE 1 + SubExprsOfExpression(bv.SubExpr[1])
SubExprsOfValues(vals, k) ==
    IF k = 0 THEN 0 ELSE SubExprsOfValue(vals[k].Value) + SubExprsOfValues(vals, k - 1)
SubExprsOfTerm(t) == SubExprsOfValue(t.Left) + SubExprsOfValues(t.Right, Len(t.Right))
SubExprsOfTerms(terms, k) ==
    IF k = 0 THEN 0 ELSE SubExprsOfTerm(terms[k].Term) + SubExprsOfTerms(terms, k - 1)
SubExprsOfExpression(e) == SubExprsOfTerm(e.Left) + SubExprsOfTerms(e.Right, Len(e.Right))

BoolValueOf(text) == ParseBooleanValue(text, 1).node

\* C9: OR binds looser than AND.  `a and b or c` parses to the Left term
\* (a and b) and the one Right term c; `a or b and c` to the Left term a and the
\* one Right term (b and c); in every parsed where-clause the terms are split
\* at the `or`s outside parentheses and the booleanValues at the `and`s outside
\* parentheses, and each opening parenthesis is one booleanValue.SubExpr.
C9_OrBindsLooserThanAnd ==
    parsed =>
        /\ \A a \in BoolValueTexts, b \in BoolValueTexts, c \in BoolValueTexts :
              /\ input = AndOr(a, b, c) =>
                    /\ ast.ok
                    /\ ast.node.Left =
                          [Left |-> BoolValueOf(a),
                           Right |-> <<[Operator |-> "and", Value |-> BoolValueOf(b)]>>]
                    /\ ast.node.Right =
                          <<[Operator |-> "or",
                             Term |-> [Left |-> BoolValueOf(c), Right |-> <<>>]]>>
              /\ input = OrAnd(a, b, c) =>
                    /\ ast.ok
                    /\ ast.node.Left = [Left |-> BoolValueOf(a), Right |-> <<>>]
                    /\ ast.node.Right =
                          <<[Operator |-> "or",
                             Term |-> [Left |-> BoolValueOf(b),
                                       Right |-> <<[Operator |-> "and",
                                                    Value |-> BoolValueOf(c)]>>]]>>
        /\ ast.ok =>
              /\ Len(ast.node.Right) = Cardinality(TopLevel(input, "OpOr"))
              /\ Len(ast.node.Left.Right) + SumLen(ast.node.Right, Len(ast.node.Right))
                    = Cardinality(TopLevel(input, "OpAnd"))
              /\ SubExprsOfExpression(ast.node)
                    = Cardinality({i \in 1 .. Len(input) : input[i].text = "("})

\* `(false or true) and false or 1 == 1` has been parsed
C9_Witness ==
    /\ parsed
    /\ ast.ok
    /\ input = AndOr(<<TLParen, TFalse, TOr, TTrue, TRParen>>, <<TFalse>>, <<TInt, TEq, TInt>>)
    /\ ast.node.Left.Left.SubExpr # <<>>
    /\ Len(ast.node.Left.Right) = 1
    /\ Len(ast.node.Right) = 1

----------------------------------------------------------------------------
(* The statement evaluator and the driver.  A record has the flags its stub *)
(* predicates a() and b() report and one settable field, status.  A value   *)
(* is [type, n]; a condition evaluates to "true", "false" or "error", and   *)
(* the evaluation lists the functions it called, in order.                  *)

NumRecords == 2      \* records in a batch
NumStatements == 2   \* configured statements

BoolVal(b) == [type |-> "Bool", n |-> IF b THEN 1 ELSE 0]
IntVal(n) == [type |-> "Int", n |-> n]
NoVal == [type |-> "None", n |-> 0]

\* strconv of an Int token's text
IntOf(text) == IF text = "1" THEN 1 ELSE IF text = "2" THEN 2 ELSE 0

Got(val, called) == [ok |-> TRUE, val |-> val, calls |-> called]
Failed(called) == [ok |-> FALSE, val |-> NoVal, calls |-> called]

\* the registry's predicates, called on a record
CallFunction(inv, rec) ==
    IF inv.Function = "a" THEN Got(BoolVal(rec.a), <<"a">>)
    ELSE IF inv.Function = "b" THEN Got(BoolVal(rec.b), <<"b">>)
    ELSE Failed(<<inv.Function>>)

\* the path table of the record context: status
GetPath(pth, rec) ==
    IF Len(pth.Fields) = 1 /\ pth.Fields[1].Name = "status"
    THEN Got(IntVal(rec.status), <<>>)
    ELSE Failed(<<>>)

EvalValue(v, rec) ==
    IF v.Invocation # <<>> THEN CallFunction(v.Invocation[1], rec)
    ELSE IF v.Bool # <<>> THEN Got(BoolVal(v.Bool[1]), <<>>)
    ELSE IF v.Int # <<>> THEN Got(IntVal(IntOf(v.Int[1])), <<>>)
    ELSE IF v.Path # <<>> THEN GetPath(v.Path[1], rec)
    ELSE Failed(<<>>)

Decided(b, called) == [res |-> IF b THEN "true" ELSE "false", calls |-> called]
Raised(called) == [res |-> "error", calls |-> called]

\* the operator applied to two numbers
Numeric(x, o, y) ==
    IF o = EQ THEN x = y
    ELSE IF o = NE THEN x # y
    ELSE IF o = LT THEN x < y
    ELSE IF o = LTE THEN x <= y
    ELSE IF o = GTE THEN x >= y
    ELSE x > y

\* the type-aware rule: numbers compare as numbers, everything else only
\* with == and !=; an ordering of anything else is a runtime error
Compare(l, o, r, called) ==
    IF l.type = "Int" /\ r.type = "Int" THEN Decided(Numeric(l.n, o, r.n), called)
    ELSE IF o = EQ THEN Decided(l = r, called)
    ELSE IF o = NE THEN Decided(l # r, called)
    ELSE Raised(called)

\* a Comparison evaluates both Values, then applies the operator
EvalComparison(c, rec) ==
    Only({IF ~l.ok THEN Raised(l.calls)
          ELSE Only({IF ~r.ok THEN Raised(l.calls \o r.calls)
                     ELSE Compare(l.val, c.Op, r.val, l.calls \o r.calls) :
                        r \in {EvalValue(c.Right, rec)}}) :
             l \in {EvalValue(c.Left, rec)}})

TermValues(t) == <<t.Left>> \o [k \in 1 .. Len(t.Right) |-> t.Right[k].Value]
ExpressionTerms(e) == <<e.Left>> \o [k \in 1 .. Len(e.Right) |-> e.Right[k].Term]

RECURSIVE EvalBooleanValue(_, _)
RECURSIVE EvalAnd(_, _, _, _)
RECURSIVE EvalOr(_, _, _, _)

EvalTerm(t, rec) == EvalAnd(TermValues(t), 1, rec, <<>>)
EvalBooleanExpression(e, rec) == EvalOr(ExpressionTerms(e), 1, rec, <<>>)

EvalBooleanValue(bv, rec) ==
    IF bv.Comparison # <<>> THEN EvalComparison(bv.Comparison[1], rec)
    ELSE IF bv.ConstExpr # <<>> THEN Decided(bv.ConstExpr[1], <<>>)
    ELSE EvalBooleanExpression(bv.SubExpr[1], rec)

\* Term: AND over the BooleanValues from the k-th on, stop at the first false
EvalAnd(vals, k, rec, called) ==
    IF k > Len(vals) THEN Decided(TRUE, called)
    ELSE Only({IF v.res = "true" THEN EvalAnd(vals, k + 1, rec, called \o v.calls)
               ELSE [v EXCEPT !.calls = called \o v.calls] :
                  v \in {EvalBooleanValue(vals[k], rec)}})

\* OR over every Term, none skipped
RECURSIVE EvalOrEvery(_, _, _, _)
EvalOrEvery(terms, k, rec, called) ==
    IF k > Len(terms) THEN Decided(FALSE, called)
    ELSE Only({Only({IF t.res = "false" THEN rest
                     ELSE [t EXCEPT !.calls = rest.calls] :
                        rest \in {EvalOrEvery(terms, k + 1, rec, called \o t.calls)}}) :
                  t \in {EvalTerm(terms[k], rec)}})

\* BooleanExpression: OR over the Terms from the k-th on, stop at the first true
EvalOr(terms, k, rec, called) ==
    IF k > Len(terms) THEN Decided(FALSE, called)
    ELSE Only({IF t.res = "false" THEN EvalOr(terms, k + 1, rec, called \o t.calls)
               ELSE [t EXCEPT !.calls = called \o t.calls] :
                  t \in {EvalTerm(terms[k], rec)}})

Effect(rec, err) == [rec |-> rec, err |-> err]

\* the registry's set(target, value), called on a record
Invoke(inv, rec) ==
    IF inv.Function = "set" /\ Len(inv.Arguments) = 2
          /\ inv.Arguments[1].Path # <<>> /\ GetPath(inv.Arguments[1].Path[1], rec).ok
    THEN Only({IF v.ok /\ v.val.type = "Int"
               THEN Effect([rec EXCEPT !.status = v.val.n], FALSE)
               ELSE Effect(rec, TRUE) : v \in {EvalValue(inv.Arguments[2], rec)}})
    ELSE Effect(rec, TRUE)

Executed(rec, cond, invoked, err) ==
    [rec |-> rec, cond |-> cond.res, invoked |-> invoked, calls |-> cond.calls, err |-> err]

\* the condition of a statement on a record; none is a condition that holds
Condition(stmt, rec) ==
    IF stmt.WhereClause = <<>> THEN Decided(TRUE, <<>>)
    ELSE EvalBooleanExpression(stmt.WhereClause[1], rec)

\* Execute that runs the invocation whatever the condition says
ExecuteAlways(stmt, rec) ==
    Only({Only({Executed(x.rec, cond, 1, x.err \/ cond.res = "error") :
                   x \in {Invoke(stmt.Invocation, rec)}}) :
             cond \in {Condition(stmt, rec)}})

\* Execute: the condition first, then the invocation if it is true
Execute(stmt, rec) ==
    Only({IF cond.res = "true"
          THEN Only({Executed(x.rec, cond, 1, x.err) :
                        x \in {Invoke(stmt.Invocation, rec)}})
          ELSE Executed(rec, cond, 0, cond.res = "error") :
             cond \in {Condition(stmt, rec)}})

----------------------------------------------------------------------------
(* SpecEval: the driver runs every configured statement, in order, against  *)
(* every record of a batch, in order.                                       *)

Records == 1 .. NumRecords
Stmts == 1 .. NumStatements

TSet == Token("Lowercase", "set")
TStatus == Token("Lowercase", "status")
TWhere == Token("Lowercase", "where")
TComma == Token("Punct", ",")
TLt == Token("OpComparison", "<")
TGt == Token("OpComparison", ">")

CallText(f) == <<Token("Lowercase", f), TLParen, TRParen>>
IsTrue(f) == CallText(f) \o <<TEq, TTrue>>
SetStatus(n) == <<TSet, TLParen, TStatus, TComma, Token("Int", n), TRParen>>

\* the statements a configuration is made of
\* set(status, 1) where a() == true or b() == true
AOrB == SetStatus("1") \o <<TWhere>> \o IsTrue("a") \o <<TOr>> \o IsTrue("b")

StatementTexts ==
    {AOrB,
     SetStatus("2") \o <<TWhere>> \o IsTrue("a") \o <<TAnd>> \o IsTrue("b"),
     SetStatus("1") \o <<TWhere>> \o IsTrue("a") \o <<TAnd>> \o CallText("b") \o <<TLt, TTrue>>,
     SetStatus("2"),
     SetStatus("1") \o <<TWhere, TStatus, TEq, Token("Int", "2"), TOr>>
        \o IsTrue("a") \o <<TAnd>> \o IsTrue("b"),
     SetStatus("2") \o <<TWhere, TLParen>> \o IsTrue("a")
        \o <<TOr, TStatus, TGt, Token("Int", "0"), TRParen, TAnd>> \o IsTrue("b")}

\* the records a batch is made of
RecordPool == {[a |-> x, b |-> y, status |-> 0] : x \in BOOLEAN, y \in BOOLEAN}

InitEval ==
    /\ IdleAttrs
    /\ IdleExemplars
    /\ IdleMatch
    /\ IdleSeries
    /\ IdleLex
    /\ path = <<>>
    /\ gs = NoGetSetter
    /\ bindErr = NIL
    /\ bound = FALSE
    /\ calls = 0
    /\ InitHeap
    /\ IdleWorkers
    /\ IdleCapture
    /\ IdleParse
    /\ \E texts \in [Stmts -> {t \in StatementTexts : ParseStatement(t).ok}] :
          statements = [i \in Stmts |-> ParseStatement(texts[i]).node]
    /\ records \in [Records -> RecordPool]
    /\ records0 = records
    /\ next = [r \in Records |-> 0]
    /\ errors = {}
    /\ evaluated = {}
    /\ lastExec = NoExec

\* the driver goes on after an error: to the whole batch's end
AdvanceAbortOnError(nxt, r, err) ==
    IF err THEN [q \in DOMAIN nxt |-> NumStatements] ELSE [nxt EXCEPT ![r] = @ + 1]

\* the driver goes on after an error: to the record's next statement
Advance(nxt, r, err) == [nxt EXCEPT ![r] = @ + 1]

\* the driver's next call of Execute: on the first record with statements left
ExecuteNext(r) ==
    /\ next[r] < NumStatements
    /\ \A q \in Records : q < r => next[q] = NumStatements
    /\ \E x \in {Execute(statements[next[r] + 1], records[r])} :
          /\ records' = [records EXCEPT ![r] = x.rec]
          /\ errors' = IF x.err THEN errors \cup {<<r, next[r] + 1>>} ELSE errors
          /\ evaluated' = evaluated \cup {<<r, next[r] + 1>>}
          /\ lastExec' = [rec |-> r, stmt |-> next[r] + 1, before |-> records[r],
                          after |-> x.rec, cond |-> x.cond, invoked |-> x.invoked,
                          calls |-> x.calls, err |-> x.err]
          /\ next' = Advance(next, r, x.err)
    /\ UNCHANGED <<statements, records0, notEval>>

NextEval == \E r \in Records : ExecuteNext(r)

SpecEval == InitEval /\ [][NextEval]_vars

\* the functions a where-clause calls
StubsOfValue(v) == IF v.Invocation # <<>> THEN {v.Invocation[1].Function} ELSE {}

RECURSIVE StubsOfBooleanValue(_)
RECURSIVE StubsOfTerm(_)
RECURSIVE StubsOfExpression(_)

StubsOfBooleanValue(bv) ==
    IF bv.Comparison # <<>>
    THEN StubsOfValue(bv.Comparison[1].Left) \cup StubsOfValue(bv.Comparison[1].Right)
    ELSE IF bv.SubExpr # <<>> THEN StubsOfExpression(bv.SubExpr[1])
    ELSE {}
StubsOfTerm(t) ==
    UNION {StubsOfBooleanValue(TermValues(t)[k]) : k \in DOMAIN TermValues(t)}
StubsOfExpression(e) ==
    UNION {StubsOfTerm(ExpressionTerms(e)[k]) : k \in DOMAIN ExpressionTerms(e)}

\* the functions of the parts of a where-clause that come after a true term
\* of their expression or after a false booleanValue of their term
RECURSIVE SkippedInExpression(_, _)
RECURSIVE SkippedInTerm(_, _)

SkippedInTerm(t, rec) ==
    UNION {IF \E j \in 1 .. k - 1 : EvalBooleanValue(TermValues(t)[j], rec).res = "false"
           THEN StubsOfBooleanValue(TermValues(t)[k])
           ELSE IF TermValues(t)[k].SubExpr # <<>>
                THEN SkippedInExpression(TermValues(t)[k].SubExpr[1], rec)
                ELSE {} : k \in DOMAIN TermValues(t)}
SkippedInExpression(e, rec) ==
    UNION {IF \E j \in 1 .. k - 1 : EvalTerm(ExpressionTerms(e)[j], rec).res = "true"
           THEN StubsOfTerm(ExpressionTerms(e)[k])
           ELSE SkippedInTerm(ExpressionTerms(e)[k], rec) : k \in DOMAIN ExpressionTerms(e)}

Called == {lastExec.calls[k] : k \in DOMAIN lastExec.calls}

\* C1: evaluating a where-clause short-circuits: no function of a term after
\* the first true term of its expression is called, and none of a booleanValue
\* after the first false booleanValue of its term; for `a() or b()`, b is not
\* called when a returned true, and is called, after a, when a returned false.
C1_ShortCircuit ==
    (lastExec.stmt # 0 /\ statements[lastExec.stmt].WhereClause # <<>>) =>
        /\ Called \cap SkippedInExpression(statements[lastExec.stmt].WhereClause[1],
                                           lastExec.before) = {}
        /\ statements[lastExec.stmt] = ParseStatement(AOrB).node =>
              /\ lastExec.before.a => lastExec.calls = <<"a">>
              /\ ~lastExec.before.a => lastExec.calls = <<"a", "b">>

\* `a() or b()` was executed on a record where a() is true
C1_Witness ==
    /\ lastExec.stmt # 0
    /\ statements[lastExec.stmt] = ParseStatement(AOrB).node
    /\ lastExec.before.a
    /\ lastExec.before.b
    /\ lastExec.cond = "true"
    /\ "b" \notin Called

\* C2: an Execute of a conditional statement runs the invocation once if the
\* where-clause evaluates to true on the record, and not at all, leaving the
\* record as it was, if it evaluates to false; an unconditional statement's
\* invocation runs once.
C2_ConditionGuardsInvocation ==
    lastExec.stmt # 0 =>
        LET stmt == statements[lastExec.stmt]
        IN IF stmt.WhereClause = <<>>
           THEN /\ lastExec.invoked = 1
                /\ lastExec.after = Invoke(stmt.Invocation, lastExec.before).rec
           ELSE /\ EvalBooleanExpression(stmt.WhereClause[1], lastExec.before).res = "true"
                   => /\ lastExec.invoked = 1
                      /\ lastExec.after = Invoke(stmt.Invocation, lastExec.before).rec
                /\ EvalBooleanExpression(stmt.WhereClause[1], lastExec.before).res = "false"
                   => /\ lastExec.invoked = 0
                      /\ lastExec.after = lastExec.before

\* a conditional statement was executed on a record its condition is false on,
\* after an earlier statement had changed the record
C2_Witness ==
    /\ lastExec.stmt # 0
    /\ statements[lastExec.stmt].WhereClause # <<>>
    /\ lastExec.cond = "false"
    /\ lastExec.invoked = 0
    /\ lastExec.before # records0[lastExec.rec]
    /\ records[lastExec.rec] = lastExec.before

Done == \A r \in Records : next[r] = NumStatements

\* a record after the first i statements, executed on it alone
RECURSIVE RunAlone(_, _)
RunAlone(rec, i) ==
    IF i = 0 THEN rec ELSE Execute(statements[i], RunAlone(rec, i - 1)).rec

\* statement i raises a runtime error on record r
Raises(r, i) == Execute(statements[i], RunAlone(records0[r], i - 1)).err

\* a record after the first i statements, those of `skip` left out
RECURSIVE RunWithout(_, _, _)
RunWithout(rec, i, skip) ==
    IF i = 0 THEN rec
    ELSE IF i \in skip THEN RunWithout(rec, i - 1, skip)
    ELSE Execute(statements[i], RunWithout(rec, i - 1, skip)).rec

\* C8: an error is reported for exactly the (record, statement) pairs that
\* raise one; when the driver is done every statement has been executed on
\* every record, and every record is what the statements that raised no error
\* on it make of it.
C8_ErrorsAreIsolated ==
    /\ errors \subseteq evaluated
    /\ \A p \in evaluated : p \in errors <=> Raises(p[1], p[2])
    /\ Done =>
          /\ evaluated = Records \X Stmts
          /\ \A r \in Records :
                records[r] = RunWithout(records0[r], NumStatements,
                                        {i \in Stmts : Raises(r, i)})

\* the batch is done, with an error on a record and a statement that are not
\* the last, and a record changed by a statement after the error
C8_Witness ==
    /\ Done
    /\ \E p \in errors :
          /\ p[1] < NumRecords
          /\ p[2] < NumStatements
          /\ records[p[1]] # records0[p[1]]
          /\ records[NumRecords] # records0[NumRecords]

----------------------------------------------------------------------------
(* The lexer: buildLexer's rules, tried in order at the current position;   *)
(* the first rule whose pattern matches there wins.  A pattern is matched    *)
(* against the rest of the text, so \b at its start sees no character before *)
(* it.  A text is a sequence of characters; CharAt is "" past its end.       *)

MaxChars == 4        \* longest text made of every character of LexAlphabet

Digits == {"0", "1", "2", "3", "4", "5", "6", "7", "8", "9"}
HexLetters == {"a", "b", "c", "d", "e", "f", "A", "B", "C", "D", "E", "F"}
LowerLetters ==
    {"a", "b", "c", "d", "e", "f", "g", "h", "i", "j", "k", "l", "m",
     "n", "o", "p", "q", "r", "s", "t", "u", "v", "w", "x", "y", "z"}
UpperLetters ==
    {"A", "B", "C", "D", "E", "F", "G", "H", "I", "J", "K", "L", "M",
     "N", "O", "P", "Q", "R", "S", "T", "U", "V", "W", "X", "Y", "Z"}
Spaces == {" ", "\t", "\n"}
Signs == {"-", "+"}
WordChars == Digits \cup LowerLetters \cup UpperLetters \cup {"_"}

CharAt(text, i) == IF i \in 1 .. Len(text) THEN text[i] ELSE ""

\* text[i .. j-1] as one string
RECURSIVE Text(_, _, _)
Text(text, i, j) == IF i >= j THEN "" ELSE text[i] \o Text(text, i + 1, j)

\* the position after the longest run of characters of S from i on
RECURSIVE RunEnd(_, _, _)
RunEnd(text, i, S) == IF CharAt(text, i) \in S THEN RunEnd(text, i + 1, S) ELSE i

\* the position after the word w at i, or 0
WordEnd(text, i, w) ==
    IF \A k \in 1 .. Len(w) : CharAt(text, i + k - 1) = w[k] THEN i + Len(w) ELSE 0

\* \b(w)\b at i
KeywordEnd(text, i, w) ==
    IF WordEnd(text, i, w) # 0 /\ CharAt(text, i + Len(w)) \notin WordChars
    THEN i + Len(w) ELSE 0

\* each rule: the position after its match at i, or 0

\* 0x[a-fA-F0-9]+
BytesEnd(text, i) ==
    IF WordEnd(text, i, <<"0", "x">>) # 0
          /\ RunEnd(text, i + 2, HexLetters \cup Digits) > i + 2
    THEN RunEnd(text, i + 2, HexLetters \cup Digits) ELSE 0

\* ([eE][-+]?\d+)? at f
ExponentEnd(text, f) ==
    IF CharAt(text, f) \in {"e", "E"}
    THEN Only({IF RunEnd(text, es, Digits) > es THEN RunEnd(text, es, Digits) ELSE f :
                  es \in {IF CharAt(text, f + 1) \in Signs THEN f + 2 ELSE f + 1}})
    ELSE f

\* [-+]?\d*\.\d+([eE][-+]?\d+)?
FloatEnd(text, i) ==
    Only({IF CharAt(text, d) = "." /\ RunEnd(text, d + 1, Digits) > d + 1
          THEN ExponentEnd(text, RunEnd(text, d + 1, Digits)) ELSE 0 :
             d \in {RunEnd(text, IF CharAt(text, i) \in Signs THEN i + 1 ELSE i, Digits)}})

\* [-+]?\d+
IntEnd(text, i) ==
    Only({IF RunEnd(text, s, Digits) > s THEN RunEnd(text, s, Digits) ELSE 0 :
             s \in {IF CharAt(text, i) \in Signs THEN i + 1 ELSE i}})

\* (\\"|[^"])*" at i: the first alternative first, the star as long as it can
RECURSIVE StringBodyEnd(_, _)
StringBodyEnd(text, i) ==
    IF i > Len(text) THEN 0
    ELSE Only({IF esc # 0 THEN esc
               ELSE IF text[i] # "\"" THEN StringBodyEnd(text, i + 1)
               ELSE i + 1 :
                  esc \in {IF text[i] = "\\" /\ CharAt(text, i + 1) = "\""
                           THEN StringBodyEnd(text, i + 2) ELSE 0}})

\* "(\\"|[^"])*"
StringEnd(text, i) == IF CharAt(text, i) = "\"" THEN StringBodyEnd(text, i + 1) ELSE 0

\* \b(or)\b, \b(and)\b
OpOrEnd(text, i) == KeywordEnd(text, i, <<"o", "r">>)
OpAndEnd(text, i) == KeywordEnd(text, i, <<"a", "n", "d">>)

\* ==|!=|>=|<=|>|<
OpComparisonEnd(text, i) ==
    IF CharAt(text, i) \in {"=", "!", ">", "<"} /\ CharAt(text, i + 1) = "=" THEN i + 2
    ELSE IF CharAt(text, i) \in {">", "<"} THEN i + 1
    ELSE 0

\* \b(true|false)\b
BooleanEnd(text, i) ==
    IF KeywordEnd(text, i, <<"t", "r", "u", "e">>) # 0 THEN i + 4
    ELSE KeywordEnd(text, i, <<"f", "a", "l", "s", "e">>)

\* \(, \), [,.\[\]]
OneOfEnd(text, i, S) == IF CharAt(text, i) \in S THEN i + 1 ELSE 0

\* [A-Z_][A-Z0-9_]*
UppercaseEnd(text, i) ==
    IF CharAt(text, i) \in UpperLetters \cup {"_"}
    THEN RunEnd(text, i + 1, UpperLetters \cup Digits \cup {"_"}) ELSE 0

\* [a-z_][a-z0-9_]*
LowercaseEnd(text, i) ==
    IF CharAt(text, i) \in LowerLetters \cup {"_"}
    THEN RunEnd(text, i + 1, LowerLetters \cup Digits \cup {"_"}) ELSE 0

\* \s+
WhitespaceEnd(text, i) ==
    IF CharAt(text, i) \in Spaces THEN RunEnd(text, i, Spaces) ELSE 0

\* the rules with Int and Float tried before Bytes
LexerRulesNumbersFirst ==
    <<"Float", "Int", "Bytes", "String", "OpOr", "OpAnd", "OpComparison", "Boolean",
      "LParen", "RParen", "Punct", "Uppercase", "Lowercase", "whitespace">>

\* buildLexer: the rules, in their order
LexerRules ==
    <<"Bytes", "Float", "Int", "String", "OpOr", "OpAnd", "OpComparison", "Boolean",
      "LParen", "RParen", "Punct", "Uppercase", "Lowercase", "whitespace">>

RuleEnd(rule, text, i) ==
    IF rule = "Bytes" THEN BytesEnd(text, i)
    ELSE IF rule = "Float" THEN FloatEnd(text, i)
    ELSE IF rule = "Int" THEN IntEnd(text, i)
    ELSE IF rule = "String" THEN StringEnd(text, i)
    ELSE IF rule = "OpOr" THEN OpOrEnd(text, i)
    ELSE IF rule = "OpAnd" THEN OpAndEnd(text, i)
    ELSE IF rule = "OpComparison" THEN OpComparisonEnd(text, i)
    ELSE IF rule = "Boolean" THEN BooleanEnd(text, i)
    ELSE IF rule = "LParen" THEN OneOfEnd(text, i, {"("})
    ELSE IF rule = "RParen" THEN OneOfEnd(text, i, {")"})
    ELSE IF rule = "Punct" THEN OneOfEnd(text, i, {",", ".", "[", "]"})
    ELSE IF rule = "Uppercase" THEN UppercaseEnd(text, i)
    ELSE IF rule = "Lowercase" THEN LowercaseEnd(text, i)
    ELSE WhitespaceEnd(text, i)

\* a rule whose name starts with a lower-case letter is left out of the tokens
Elided(rule) == rule = "whitespace"

NoMatch == [rule |-> "", end |-> 0]

\* the first rule that matches at i, and where its match ends
NextMatch(text, i) ==
    Only({IF hits = {} THEN NoMatch
          ELSE Only({[rule |-> LexerRules[k], end |-> RuleEnd(LexerRules[k], text, i)] :
                        k \in {CHOOSE k \in hits : \A j \in hits : k <= j}}) :
             hits \in {{k \in DOMAIN LexerRules : RuleEnd(LexerRules[k], text, i) > i}}})

----------------------------------------------------------------------------
(* SpecLex, SpecText: a text is lexed token by token; once the lexer has    *)
(* reached its end, the tokens are parsed as a statement.                   *)

LexToken ==
    /\ ~lexErr
    /\ lexPos <= Len(source)
    /\ \E m \in {NextMatch(source, lexPos)} :
          /\ m.rule # ""
          /\ ~Elided(m.rule)
          /\ lexToks' = Append(lexToks, Token(m.rule, Text(source, lexPos, m.end)))
          /\ lexStarts' = Append(lexStarts, lexPos)
          /\ lexPos' = m.end
    /\ UNCHANGED <<source, lexErr, stmtParsed, stmtAst, notLex>>

LexSkip ==
    /\ ~lexErr
    /\ lexPos <= Len(source)
    /\ \E m \in {NextMatch(source, lexPos)} :
          /\ m.rule # ""
          /\ Elided(m.rule)
          /\ lexPos' = m.end
    /\ UNCHANGED <<source, lexToks, lexStarts, lexErr, stmtParsed, stmtAst, notLex>>

LexFail ==
    /\ ~lexErr
    /\ lexPos <= Len(source)
    /\ NextMatch(source, lexPos).rule = ""
    /\ lexErr' = TRUE
    /\ UNCHANGED <<source, lexPos, lexToks, lexStarts, stmtParsed, stmtAst, notLex>>

ParseTokens ==
    /\ ~lexErr
    /\ lexPos > Len(source)
    /\ ~stmtParsed
    /\ stmtParsed' = TRUE
    /\ stmtAst' = ParseStatement(lexToks)
    /\ UNCHANGED <<source, lexPos, lexToks, lexStarts, lexErr, notLex>>

NextText == LexToken \/ LexSkip \/ LexFail \/ ParseTokens

IdleOthers ==
    /\ path = <<>>
    /\ gs = NoGetSetter
    /\ bindErr = NIL
    /\ bound = FALSE
    /\ calls = 0
    /\ InitHeap
    /\ IdleWorkers
    /\ IdleCapture
    /\ IdleParse
    /\ IdleEval

LexAlphabet == {"0", "x", "1", "F", "o", "r", " ", "!"}

Keywords ==
    {<<"o", "r">>, <<"a", "n", "d">>, <<"t", "r", "u", "e">>, <<"f", "a", "l", "s", "e">>}

\* short texts of every kind, the keywords between other characters, and
\* `0x1F or true`
LexInputs ==
    SeqsUpTo(LexAlphabet, MaxChars)
        \cup {pre \o w \o post :
                pre \in {<<>>, <<" ">>, <<"1">>, <<"X">>, <<"x">>, <<"(">>},
                w \in Keywords,
                post \in {<<>>, <<" ">>, <<"(">>, <<"d">>, <<"_">>, <<"1">>}}
        \cup {<<"0", "x", "1", "F", " ", "o", "r", " ", "t", "r", "u", "e">>,
              <<"0", "x", "a", "0", ",", "0", "x", "g">>}

InitLex ==
    /\ IdleAttrs
    /\ IdleExemplars
    /\ IdleMatch
    /\ IdleSeries
    /\ IdleOthers
    /\ source \in LexInputs
    /\ lexPos = 1
    /\ lexToks = <<>>
    /\ lexStarts = <<>>
    /\ lexErr = FALSE
    /\ stmtParsed = FALSE
    /\ stmtAst = [ok |-> FALSE, node |-> <<>>]

SpecLex == InitLex /\ [][NextText]_vars

\* the lexer has reached the end of the text
LexDone == ~lexErr /\ lexPos > Len(source)

\* the text at i starts with 0x and a hex digit
HexLiteralAt(text, i) ==
    /\ CharAt(text, i) = "0"
    /\ CharAt(text, i + 1) = "x"
    /\ CharAt(text, i + 2) \in Digits \cup HexLetters

\* the word w stands at i and no letter, digit or underscore follows it
KeywordAt(text, i, w) ==
    /\ \A k \in 1 .. Len(w) : CharAt(text, i + k - 1) = w[k]
    /\ CharAt(text, i + Len(w)) \notin WordChars

\* the type of the token that starts at a keyword
KeywordType(w) ==
    IF w = <<"o", "r">> THEN "OpOr"
    ELSE IF w = <<"a", "n", "d">> THEN "OpAnd"
    ELSE "Boolean"

\* a hex literal is one Bytes token, and no token is whitespace
HexAndWhitespace ==
    /\ \A k \in DOMAIN lexToks :
          /\ HexLiteralAt(source, lexStarts[k]) =>
                lexToks[k] =
                    Token("Bytes",
                          Text(source, lexStarts[k],
                               RunEnd(source, lexStarts[k] + 2, Digits \cup HexLetters)))
          /\ lexToks[k].type # "whitespace"
          /\ source[lexStarts[k]] \notin Spaces
    /\ (LexDone /\ HexLiteralAt(source, 1)
           /\ RunEnd(source, 3, Digits \cup HexLetters) > Len(source)) =>
          lexToks = <<Token("Bytes", Text(source, 1, Len(source) + 1))>>

\* C11, as claimed: a token that starts where `0x` and a hex digit stand is
\* a Bytes token holding every hex digit that follows, so a text that is one
\* hex literal is one Bytes token; a token `or`, `and`, `true` or `false` is
\* an OpOr, OpAnd or Boolean token, never a Lowercase one; no token is a
\* whitespace token or starts at a whitespace character.
C11_KeywordsNeverLowercase ==
    /\ HexAndWhitespace
    /\ \A k \in DOMAIN lexToks :
          /\ lexToks[k].text = "or" => lexToks[k].type = "OpOr"
          /\ lexToks[k].text = "and" => lexToks[k].type = "OpAnd"
          /\ lexToks[k].text \in {"true", "false"} => lexToks[k].type = "Boolean"

\* C11, amended: the same for hex literals and whitespace; a token that
\* starts at `or`, `and`, `true` or `false` with no letter, digit or
\* underscore right after it is the OpOr, OpAnd or Boolean token of that
\* word.
C11_LexerRuleOrder ==
    /\ HexAndWhitespace
    /\ \A k \in DOMAIN lexToks : \A w \in Keywords :
          KeywordAt(source, lexStarts[k], w) =>
              lexToks[k] = Token(KeywordType(w), Text(w, 1, Len(w) + 1))

\* `0x1F or true` has been lexed
C11_Witness ==
    /\ LexDone
    /\ \E i \in DOMAIN source : source[i] \in Spaces
    /\ lexToks = <<Token("Bytes", "0x1F"), Token("OpOr", "or"), Token("Boolean", "true")>>

----------------------------------------------------------------------------
(* SpecText: the texts are statements, `name(values) where condition`.      *)

MaxArgs == 2         \* most arguments of an invocation in a text

\* function names: lower-case, upper-case, mixed, and one holding `or`
NameTexts == {<<"f">>, <<"F", "O">>, <<"I", "s">>, <<"i", "S">>, <<"X", "o", "r">>}

\* values: nil, an enum, invocations, paths, one literal of each kind, and
\* a character no rule of the lexer matches
ValueTexts ==
    {<<"n", "i", "l">>, <<"F", "O">>, <<"F", "O", "(", ")">>, <<"f", "o">>,
     <<"f", "(", "n", "i", "l", ")">>, <<"a", ".", "n", "i", "l">>,
     <<"n", "i", "l", ".", "a">>, <<"a", "[", "\"", "k", "\"", "]">>,
     <<"1">>, <<".", "5">>, <<"0", "x", "1">>, <<"\"", "a", "\"">>, <<"t", "r", "u", "e">>,
     <<"!">>}

\* conditions: none, a literal, comparisons, a parenthesized expression
ConditionTexts ==
    {<<>>,
     <<" ", "w", "h", "e", "r", "e", " ", "t", "r", "u", "e">>,
     <<" ", "w", "h", "e", "r", "e", " ", "n", "i", "l", "=", "=", "F", "O">>,
     <<" ", "w", "h", "e", "r", "e", " ", "(", "F", "O", "(", ")", "!", "=", "a", ")",
       " ", "o", "r", " ", "f", "a", "l", "s", "e">>}

\* the values of a list, with commas between them
RECURSIVE JoinValues(_)
JoinValues(vs) ==
    IF vs = <<>> THEN <<>>
    ELSE IF Len(vs) = 1 THEN vs[1]
    ELSE vs[1] \o <<",">> \o JoinValues(Tail(vs))

StatementInputs ==
    {n \o <<"(", ")">> : n \in NameTexts}
        \cup {n \o <<" ", "(", "1", ")">> : n \in NameTexts}
        \cup {<<"f", "(">> \o JoinValues(vs) \o <<")">> \o c :
                vs \in SeqsUpTo(ValueTexts, MaxArgs), c \in ConditionTexts}

InitText ==
    /\ IdleAttrs
    /\ IdleExemplars
    /\ IdleMatch
    /\ IdleSeries
    /\ IdleOthers
    /\ source \in StatementInputs
    /\ lexPos = 1
    /\ lexToks = <<>>
    /\ lexStarts = <<>>
    /\ lexErr = FALSE
    /\ stmtParsed = FALSE
    /\ stmtAst = [ok |-> FALSE, node |-> <<>>]

SpecText == InitText /\ [][NextText]_vars

IsNameToken(t) == t.type \in {"Uppercase", "Lowercase"}

\* how many name tokens the text starts with
LeadingNames ==
    CHOOSE n \in 0 .. Len(lexToks) :
        /\ \A k \in 1 .. n : IsNameToken(lexToks[k])
        /\ n < Len(lexToks) => ~IsNameToken(lexToks[n + 1])

\* the text starts with a name that is upper-case and lower-case tokens
MixedCaseName ==
    /\ \E k \in 1 .. LeadingNames : lexToks[k].type = "Uppercase"
    /\ \E k \in 1 .. LeadingNames : lexToks[k].type = "Lowercase"

\* the text is a name and `()`
NameAndParens ==
    /\ LeadingNames >= 1
    /\ Len(lexToks) = LeadingNames + 2
    /\ lexToks[LeadingNames + 1].text = "("
    /\ lexToks[LeadingNames + 2].text = ")"

\* C12, as claimed: a statement whose function name is entirely upper-case or
\* entirely lower-case is accepted, and one whose name mixes upper- and
\* lower-case letters is a syntax error.
C12_MixedCaseNameIsError ==
    stmtParsed =>
        /\ (NameAndParens /\ ~MixedCaseName) => stmtAst.ok
        /\ MixedCaseName => ~stmtAst.ok

\* C12, amended: the function name of a parsed statement is what the
\* Uppercase and Lowercase tokens at its start spell, up to the `(`; a name
\* followed by `()` is accepted whether it is upper-case, lower-case or mixes
\* the two.
C12_FunctionNameIsItsTokens ==
    stmtParsed =>
        /\ NameAndParens => stmtAst.ok
        /\ stmtAst.ok =>
              /\ LeadingNames >= 1
              /\ lexToks[LeadingNames + 1].text = "("
              /\ stmtAst.node.Invocation.Function
                    = Text(source, 1, RunEnd(source, 1, WordChars))

\* `Is()` has been parsed: the name is the tokens `I` and `s`
C12_Witness ==
    /\ stmtParsed
    /\ stmtAst.ok
    /\ MixedCaseName
    /\ LeadingNames = 2
    /\ stmtAst.node.Invocation.Function = "Is"

\* the value nodes below a value, itself included
RECURSIVE ValuesOfValue(_)
ValuesOfValue(v) ==
    {v} \cup (IF v.Invocation = <<>> THEN {}
              ELSE UNION {ValuesOfValue(v.Invocation[1].Arguments[k]) :
                             k \in DOMAIN v.Invocation[1].Arguments})

\* the booleanValue nodes below a booleanExpression
RECURSIVE BooleanValuesOfExpression(_)
BooleanValuesOfExpression(e) ==
    UNION {UNION {{bv} \cup (IF bv.SubExpr = <<>> THEN {}
                             ELSE BooleanValuesOfExpression(bv.SubExpr[1])) :
                     bv \in {TermValues(t)[k] : k \in DOMAIN TermValues(t)}} :
              t \in {ExpressionTerms(e)[k] : k \in DOMAIN ExpressionTerms(e)}}

\* the booleanValue nodes and the value nodes of the parsed statement
AstBooleanValues ==
    IF stmtAst.node.WhereClause = <<>> THEN {}
    ELSE BooleanValuesOfExpression(stmtAst.node.WhereClause[1])
AstValues ==
    UNION {ValuesOfValue(stmtAst.node.Invocation.Arguments[k]) :
              k \in DOMAIN stmtAst.node.Invocation.Arguments}
        \cup UNION {ValuesOfValue(bv.Comparison[1].Left)
                        \cup ValuesOfValue(bv.Comparison[1].Right) :
                       bv \in {b \in AstBooleanValues : b.Comparison # <<>>}}

Populated(node) == {f \in DOMAIN node : node[f] # <<>>}

TokenAt(k) == At(lexToks, k)

\* token k is `nil` standing as a value: not a field after `.`, not a name
NilValueAt(k) ==
    /\ TokenAt(k).text = "nil"
    /\ TokenAt(k - 1).text # "."
    /\ ~IsNameToken(TokenAt(k - 1))
    /\ ~IsNameToken(TokenAt(k + 1))
    /\ TokenAt(k + 1).text # "("

\* token k is an upper-case identifier and `(` follows it
UpperCallAt(k) ==
    /\ TokenAt(k).type = "Uppercase"
    /\ ~IsNameToken(TokenAt(k - 1))
    /\ TokenAt(k + 1).text = "("

\* C13: in the AST of a successful parse every value node has exactly one of
\* its nine alternatives populated and every booleanValue node exactly one of
\* its three; a `nil` standing as a value is an IsNil node and no Path starts
\* with a field `nil`; an upper-case identifier followed by `(` is an
\* Invocation, and an Enum node is an upper-case identifier that no `(`
\* follows.
C13_ExactlyOneAlternative ==
    (stmtParsed /\ stmtAst.ok) =>
        /\ \A v \in AstValues :
              /\ Cardinality(Populated(v)) = 1
              /\ v.Path # <<>> => v.Path[1].Fields[1].Name # "nil"
              /\ v.Enum # <<>> =>
                    \E k \in DOMAIN lexToks :
                        /\ lexToks[k] = Token("Uppercase", v.Enum[1])
                        /\ TokenAt(k + 1).text # "("
        /\ \A bv \in AstBooleanValues : Cardinality(Populated(bv)) = 1
        /\ \A k \in DOMAIN lexToks :
              /\ NilValueAt(k) => \E v \in AstValues : v.IsNil = <<TRUE>>
              /\ (UpperCallAt(k) /\ k > 1) =>
                    \E v \in AstValues :
                        /\ v.Invocation # <<>>
                        /\ v.Invocation[1].Function = lexToks[k].text

\* `f(nil,FO) where (FO()!=a) or false` has been parsed
C13_Witness ==
    /\ stmtParsed
    /\ stmtAst.ok
    /\ \E v \in AstValues : v.IsNil = <<TRUE>>
    /\ \E v \in AstValues : v.Enum = <<"FO">>
    /\ \E v \in AstValues : v.Invocation # <<>> /\ v.Invocation[1].Function = "FO"
    /\ \E v \in AstValues : v.Path # <<>>
    /\ \E bv \in AstBooleanValues : bv.SubExpr # <<>>
    /\ \E bv \in AstBooleanValues : bv.ConstExpr # <<>>

----------------------------------------------------------------------------
(* pkg/translator/prometheusremotewrite/helper.go: time series.

   A prompb.Label is [Name, Value], a prompb.Sample [Value, Timestamp], a
   prompb.TimeSeries [Labels, Samples, Exemplars]. tsMap maps a signature to
   its time series; tsNil says that the map is nil. A nil pointer or nil
   slice is <<>>, a set one is the one-element tuple of what it holds. A
   float64 is [nan, n]: Float(n), or StaleNaN. *)

MaxAdds == 2         \* calls of addSample and timeSeriesSignature in a run
MaxLabels == 2       \* longest label slice handed to them

Float(n) == [nan |-> FALSE, n |-> n]
StaleNaN == [nan |-> TRUE, n |-> 0]

\* the label names of the model, in the byte order Go compares strings by
LabelNameOrder == <<"__name__", "a", "a_b", "b", "le">>

Rank(name) == CHOOSE i \in 1..Len(LabelNameOrder) : LabelNameOrder[i] = name

\* ByLabelName.Less and ByLabelName.Swap
ByLabelNameLess(a, i, j) == Rank(a[i].Name) < Rank(a[j].Name)

ByLabelNameSwap(a, i, j) == [a EXCEPT ![i] = a[j], ![j] = a[i]]

\* sort.Sort on a slice this short is its insertion sort: element i moves
\* left while it is Less than its left neighbour
RECURSIVE SiftLeft(_, _)
SiftLeft(a, j) ==
    IF j > 1 /\ ByLabelNameLess(a, j, j - 1)
    THEN SiftLeft(ByLabelNameSwap(a, j, j - 1), j - 1)
    ELSE a

RECURSIVE InsertionSort(_, _)
InsertionSort(a, i) ==
    IF i > Len(a) THEN a
    ELSE Only({InsertionSort(b, i + 1) : b \in {SiftLeft(a, i)}})

SortByLabelName(labels) == InsertionSort(labels, 2)

\* the loop of timeSeriesSignature over the labels, b the strings.Builder
RECURSIVE WriteLabels(_, _, _)
WriteLabels(b, labels, i) ==
    IF i > Len(labels) THEN b
    ELSE WriteLabels(b \o "-" \o labels[i].Name \o "-" \o labels[i].Value,
                     labels, i + 1)

\* timeSeriesSignature that writes the labels in the order it finds them
timeSeriesSignatureUnsorted(datatype, labels) ==
    [sig |-> WriteLabels(datatype, labels, 1), labels |-> labels]

\* timeSeriesSignature(datatype, &labels): the signature, and the caller's
\* slice as the call leaves it
timeSeriesSignature(datatype, labels) ==
    Only({[sig |-> WriteLabels(datatype, sorted, 1), labels |-> sorted] :
          sorted \in {SortByLabelName(labels)}})

TimeSeries(labels, samples) ==
    [Labels |-> labels, Samples |-> samples, Exemplars |-> <<>>]

\* addSample without its check of labels
addSampleAnyLabels(ts, isNil, sample, labels, datatype) ==
    IF sample = <<>> \/ isNil
    THEN [tsMap |-> ts, sig |-> "", labels |-> labels]
    ELSE Only({
        [tsMap |-> [k \in DOMAIN ts \cup {s.sig} |->
                       IF k # s.sig THEN ts[k]
                       ELSE IF k \in DOMAIN ts
                            THEN [ts[k] EXCEPT !.Samples = Append(@, sample[1])]
                            ELSE TimeSeries(s.labels, sample)],
         sig |-> s.sig,
         labels |-> <<s.labels>>] :
        s \in {timeSeriesSignature(datatype,
                   IF labels = <<>> THEN <<>> ELSE labels[1])}})

\* addSample that replaces the samples of a time series it finds
addSampleReplacing(ts, isNil, sample, labels, datatype) ==
    IF sample = <<>> \/ labels = <<>> \/ isNil
    THEN [tsMap |-> ts, sig |-> "", labels |-> labels]
    ELSE Only({
        [tsMap |-> [k \in DOMAIN ts \cup {s.sig} |->
                       IF k # s.sig THEN ts[k]
                       ELSE TimeSeries(s.labels, sample)],
         sig |-> s.sig,
         labels |-> <<s.labels>>] :
        s \in {timeSeriesSignature(datatype, labels[1])}})

\* addSample(tsMap, sample, labels, datatype): the map, the signature
\* returned and the caller's labels after the call
addSample(ts, isNil, sample, labels, datatype) ==
    IF sample = <<>> \/ labels = <<>> \/ isNil
    THEN [tsMap |-> ts, sig |-> "", labels |-> labels]
    ELSE Only({
        [tsMap |-> [k \in DOMAIN ts \cup {s.sig} |->
                       IF k # s.sig THEN ts[k]
                       ELSE IF k \in DOMAIN ts
                            THEN [ts[k] EXCEPT !.Samples = Append(@, sample[1])]
                            ELSE TimeSeries(s.labels, sample)],
         sig |-> s.sig,
         labels |-> <<s.labels>>] :
        s \in {timeSeriesSignature(datatype, labels[1])}})

----------------------------------------------------------------------------
(* SpecSeries: calls of addSample and of timeSeriesSignature, one after the
   other, on one tsMap *)

LabelNames == {"a", "b"}
LabelValues == {"x", "y"}
Datatypes == {"GAUGE", "SUM"}

Labels == [Name : LabelNames, Value : LabelValues]

DistinctNames(labels) ==
    \A i, j \in 1..Len(labels) : labels[i].Name = labels[j].Name => i = j

\* the label slices a caller has: no name twice (helper.go:139)
LabelSlices ==
    UNION {{l \in [1..n -> Labels] : DistinctNames(l)} : n \in 0..MaxLabels}

LabelSet(labels) == {labels[i] : i \in 1..Len(labels)}

InitSeries ==
    /\ IdleAttrs
    /\ IdleExemplars
    /\ IdleMatch
    /\ IdleOthers
    /\ IdleLex
    /\ tsNil \in BOOLEAN
    /\ tsMap = <<>>
    /\ tsMap0 = <<>>
    /\ addCalls = 0
    /\ addLog = <<>>
    /\ lastAdd = <<>>
    /\ pt = <<>>
    /\ histPc = "idle"
    /\ histI = 0
    /\ cumulativeCount = 0
    /\ bucketBounds = <<>>
    /\ emitted = <<>>

histFields == <<tsMap0, pt, histPc, histI, cumulativeCount, bucketBounds, emitted>>

\* one call of addSample; the sample carries the number of the call
AddSample ==
    /\ addCalls < MaxAdds
    /\ \E sample \in {<<>>, <<[Value |-> Float(1), Timestamp |-> addCalls + 1]>>},
          labels \in {<<>>} \cup {<<l>> : l \in LabelSlices},
          datatype \in Datatypes :
        \E r \in {addSample(tsMap, tsNil, sample, labels, datatype)} :
            /\ tsMap' = r.tsMap
            /\ lastAdd' = [call |-> "addSample", sample |-> sample,
                           labels |-> labels, datatype |-> datatype,
                           sig |-> r.sig, labelsAfter |-> r.labels,
                           before |-> tsMap]
            /\ addLog' = IF sample = <<>> \/ labels = <<>> \/ tsNil
                         THEN addLog
                         ELSE Append(addLog,
                                  [datatype |-> datatype,
                                   labels |-> LabelSet(labels[1]),
                                   sample |-> sample[1], sig |-> r.sig])
    /\ addCalls' = addCalls + 1
    /\ UNCHANGED <<tsNil, histFields, notSeries>>

\* one call of timeSeriesSignature on a slice of the caller
Sign ==
    /\ addCalls < MaxAdds
    /\ \E labels \in LabelSlices, datatype \in Datatypes :
        \E r \in {timeSeriesSignature(datatype, labels)} :
            lastAdd' = [call |-> "timeSeriesSignature", labels |-> labels,
                        datatype |-> datatype, sig |-> r.sig,
                        labelsAfter |-> r.labels]
    /\ addCalls' = addCalls + 1
    /\ UNCHANGED <<tsNil, tsMap, addLog, histFields, notSeries>>

NextSeries == AddSample \/ Sign

SpecSeries == InitSeries /\ [][NextSeries]_vars

AddedWith(nilArgument) ==
    /\ lastAdd # <<>>
    /\ lastAdd.call = "addSample"
    /\ nilArgument = (lastAdd.sample = <<>> \/ lastAdd.labels = <<>> \/ tsNil)

\* C18: a call of addSample with a nil sample, nil labels or a nil tsMap
\* returns the empty signature and leaves tsMap as it was before the call: no
\* time series created, no sample appended.
C18_NilArgumentsChangeNothing ==
    AddedWith(TRUE) =>
        /\ lastAdd.sig = ""
        /\ tsMap = lastAdd.before
        /\ lastAdd.labelsAfter = lastAdd.labels

\* a call with nil labels and a sample, on a map that holds a time series
C18_Witness ==
    /\ AddedWith(TRUE)
    /\ lastAdd.labels = <<>>
    /\ lastAdd.sample # <<>>
    /\ ~tsNil
    /\ DOMAIN tsMap # {}
    /\ tsMap = lastAdd.before

\* the samples of the logged calls that returned signature sig, in call order
SamplesSentTo(sig) ==
    LET sent == SelectSeq(addLog, LAMBDA e : e.sig = sig)
    IN  [i \in 1..Len(sent) |-> sent[i].sample]

\* C19: a call of addSample with non-nil arguments creates exactly one entry
\* or appends exactly one sample to one existing entry, and changes no other
\* entry; the signature it returns keys the entry whose last sample is the one
\* just added; calls with the same datatype and the same label set, in any
\* order, get the same time series, whose Samples are in call order.
C19_OneSeriesPerLabelSet ==
    /\ AddedWith(FALSE) =>
        LET before == lastAdd.before
            sig == lastAdd.sig
            sample == lastAdd.sample[1]
        IN  /\ sig \in DOMAIN tsMap
            /\ tsMap[sig].Samples[Len(tsMap[sig].Samples)] = sample
            /\ \A k \in DOMAIN before \ {sig} :
                   k \in DOMAIN tsMap /\ tsMap[k] = before[k]
            /\ IF sig \in DOMAIN before
               THEN /\ DOMAIN tsMap = DOMAIN before
                    /\ tsMap[sig] =
                           [before[sig] EXCEPT !.Samples = Append(@, sample)]
               ELSE /\ DOMAIN tsMap = DOMAIN before \cup {sig}
                    /\ tsMap[sig].Samples = <<sample>>
                    /\ LabelSet(tsMap[sig].Labels) = LabelSet(lastAdd.labels[1])
    /\ \A i, j \in DOMAIN addLog :
           (addLog[i].datatype = addLog[j].datatype
                /\ addLog[i].labels = addLog[j].labels)
               => addLog[i].sig = addLog[j].sig
    /\ DOMAIN tsMap = {addLog[i].sig : i \in DOMAIN addLog}
    /\ \A sig \in DOMAIN tsMap : tsMap[sig].Samples = SamplesSentTo(sig)

\* two calls with the same two labels in different orders: one time series
\* with both samples
C19_Witness ==
    /\ AddedWith(FALSE)
    /\ Len(addLog) = 2
    /\ addLog[1].sig = addLog[2].sig
    /\ Len(lastAdd.labels[1]) = 2
    /\ lastAdd.labelsAfter # lastAdd.labels
    /\ DOMAIN tsMap = {lastAdd.sig}
    /\ Len(tsMap[lastAdd.sig].Samples) = 2
    /\ tsMap[lastAdd.sig].Samples[1].Timestamp = 1
    /\ tsMap[lastAdd.sig].Samples[2].Timestamp = 2

\* "TYPE-name1-value1-...-nameN-valueN" with the names of the label set
\* ascending, from the r-th name of LabelNameOrder on
RECURSIVE AscendingFrom(_, _)
AscendingFrom(labelSet, r) ==
    IF r > Len(LabelNameOrder) THEN ""
    ELSE LET named == {l \in labelSet : l.Name = LabelNameOrder[r]}
         IN  (IF named = {} THEN ""
              ELSE "-" \o Only(named).Name \o "-" \o Only(named).Value)
             \o AscendingFrom(labelSet, r + 1)

Signed == lastAdd # <<>> /\ lastAdd.call = "timeSeriesSignature"

\* C20: for a datatype and labels with distinct names, timeSeriesSignature
\* returns "TYPE-name1-value1-...-nameN-valueN" with the names ascending,
\* whatever the order of the slice, and leaves the caller's slice holding the
\* same labels sorted by name.
C20_SignatureIgnoresOrder ==
    Signed =>
        /\ lastAdd.sig =
               lastAdd.datatype \o AscendingFrom(LabelSet(lastAdd.labels), 1)
        /\ Len(lastAdd.labelsAfter) = Len(lastAdd.labels)
        /\ LabelSet(lastAdd.labelsAfter) = LabelSet(lastAdd.labels)
        /\ \A i, j \in 1..Len(lastAdd.labelsAfter) :
               i < j => Rank(lastAdd.labelsAfter[i].Name)
                            < Rank(lastAdd.labelsAfter[j].Name)

\* a slice of two labels handed over in descending order
C20_Witness ==
    /\ Signed
    /\ Len(lastAdd.labels) = 2
    /\ Rank(lastAdd.labels[1].Name) > Rank(lastAdd.labels[2].Name)
    /\ lastAdd.labelsAfter # lastAdd.labels

----------------------------------------------------------------------------
(* pkg/translator/prometheusremotewrite/helper.go: histogram data points.

   A float64 bound, sum or exemplar value of a data point is a number of
   tenths (15 is 1.5); a bucket bound is [inf, tenths], Finite(t) or PosInf.
   A data point is [ExplicitBounds, BucketCounts, HasSum, Sum, Count,
   NoRecordedValue, Attributes, Exemplars, Timestamp], Attributes a
   pcommon.Map: the sequence of its [Key, Value] entries. The resource of a
   histogram has no attribute and its settings no external label. *)

MaxBounds == 2       \* most entries of ExplicitBounds
MaxCounts == 3       \* most entries of BucketCounts

nameStr == "__name__"
sumStr == "_sum"
countStr == "_count"
bucketStr == "_bucket"
leStr == "le"
pInfStr == "+Inf"

Finite(t) == [inf |-> FALSE, tenths |-> t]
PosInf == [inf |-> TRUE, tenths |-> 0]

\* a <= b on bucket bounds
BoundLeq(a, b) == b.inf \/ (~a.inf /\ a.tenths <= b.tenths)

DigitText(d) == <<"0", "1", "2", "3", "4", "5", "6", "7", "8", "9">>[d + 1]

RECURSIVE IntText(_)
IntText(n) ==
    IF n < 10 THEN DigitText(n) ELSE IntText(n \div 10) \o DigitText(n % 10)

\* strconv.FormatFloat(bound, 'f', -1, 64): the fewest digits that give the
\* value back, so no fraction for a whole number
FormatFloat(t) ==
    IntText(t \div 10) \o (IF t % 10 = 0 THEN "" ELSE "." \o DigitText(t % 10))

\* pcommon.Value: [type, str, num, bool], num the integer of an Int and the
\* tenths of a Double
StrValue(s) == [type |-> "Str", str |-> s, num |-> 0, bool |-> FALSE]
BoolValue(b) == [type |-> "Bool", str |-> "", num |-> 0, bool |-> b]
DoubleValue(t) == [type |-> "Double", str |-> "", num |-> t, bool |-> FALSE]
IntValue(n) == [type |-> "Int", str |-> "", num |-> n, bool |-> FALSE]
MapValue == [type |-> "Map", str |-> "", num |-> 0, bool |-> FALSE]

FormatBool(b) == IF b THEN "true" ELSE "false"

FormatInt(n) == IF n < 0 THEN "-" \o IntText(0 - n) ELSE IntText(n)

\* pcommon.Value.AsString, the empty map as its JSON text
AsString(v) ==
    CASE v.type = "Str" -> v.str
      [] v.type = "Bool" -> FormatBool(v.bool)
      [] v.type = "Double" -> FormatFloat(v.num)
      [] v.type = "Int" -> FormatInt(v.num)
      [] OTHER -> "{}"

\* prometheustranslator.NormalizeLabel: a character that a label name cannot
\* hold becomes "_"; the other keys of the model are label names already
NormalizeLabel(key) ==
    CASE key = "a.b" -> "a_b"
      [] key = "__a.b__" -> "__a_b__"
      [] OTHER -> key

\* len(name) > 4 && name[:2] == "__" && name[len(name)-2:] == "__", on the
\* names of the model
IsInternalLabel(name) == name \in {"__name__", "__a.b__"}

AttributeServiceName == "service.name"
AttributeServiceNamespace == "service.namespace"
AttributeServiceInstanceID == "service.instance.id"
JobLabel == "job"
InstanceLabel == "instance"

\* the attribute keys of the model in the byte order Go compares strings by
KeyOrder ==
    <<"a.b", "a_b", "job", "le", AttributeServiceInstanceID,
      AttributeServiceName, AttributeServiceNamespace>>

KeyRank(key) == CHOOSE i \in 1..Len(KeyOrder) : KeyOrder[i] = key

\* pcommon.Map.Sort: a stable sort of the entries by key
RECURSIVE SiftKeyLeft(_, _)
SiftKeyLeft(entries, j) ==
    IF j > 1 /\ KeyRank(entries[j].Key) < KeyRank(entries[j - 1].Key)
    THEN SiftKeyLeft([entries EXCEPT ![j] = entries[j - 1],
                                     ![j - 1] = entries[j]], j - 1)
    ELSE entries

RECURSIVE SortMap(_, _)
SortMap(entries, i) ==
    IF i > Len(entries) THEN entries
    ELSE Only({SortMap(sifted, i + 1) : sifted \in {SiftKeyLeft(entries, i)}})

NoLabels == [n \in {} |-> [Name |-> "", Value |-> ""]]

\* l[name] = label
PutLabel(l, name, value) ==
    [n \in DOMAIN l \cup {name} |->
        IF n = name THEN [Name |-> name, Value |-> value] ELSE l[n]]

\* cloneAttributes.Range: the map l after the entries of the clone from the
\* i-th on; a key that collides with an earlier one when normalized adds
\* ";value" to the label
RECURSIVE AttributeLabels(_, _, _)
AttributeLabels(l, clone, i) ==
    IF i > Len(clone) THEN l
    ELSE Only({AttributeLabels(put, clone, i + 1) :
               put \in {Only({PutLabel(l, finalKey,
                                  IF finalKey \in DOMAIN l
                                  THEN l[finalKey].Value \o ";"
                                           \o AsString(clone[i].Value)
                                  ELSE AsString(clone[i].Value)) :
                              finalKey \in {NormalizeLabel(clone[i].Key)}})}})

\* service.name (with service.namespace) to job
WithJobLabel(l, resourceAttributes) ==
    IF MapHas(resourceAttributes, AttributeServiceName)
    THEN PutLabel(l, JobLabel,
             IF MapHas(resourceAttributes, AttributeServiceNamespace)
             THEN AsString(MapGet(resourceAttributes, AttributeServiceNamespace))
                      \o "/"
                      \o AsString(MapGet(resourceAttributes, AttributeServiceName))
             ELSE AsString(MapGet(resourceAttributes, AttributeServiceName)))
    ELSE l

\* service.instance.id to instance
WithInstanceLabel(l, resourceAttributes) ==
    IF MapHas(resourceAttributes, AttributeServiceInstanceID)
    THEN PutLabel(l, InstanceLabel,
             AsString(MapGet(resourceAttributes, AttributeServiceInstanceID)))
    ELSE l

\* the loop over externalLabels with an external label put over what is there
WithExternalLabelsOverriding(l, externalLabels) ==
    [n \in DOMAIN l \cup DOMAIN externalLabels |->
        IF n \in DOMAIN externalLabels
        THEN [Name |-> n, Value |-> externalLabels[n]]
        ELSE l[n]]

\* the loop over externalLabels: a key already in l is skipped, so the order
\* of the range over the Go map does not matter
WithExternalLabels(l, externalLabels) ==
    [n \in DOMAIN l \cup DOMAIN externalLabels |->
        IF n \in DOMAIN l
        THEN l[n]
        ELSE [Name |-> n, Value |-> externalLabels[n]]]

\* the loop over extras that leaves a label it finds as it is
RECURSIVE WithExtrasKeeping(_, _, _)
WithExtrasKeeping(l, extras, i) ==
    IF i >= Len(extras) \/ i + 1 >= Len(extras) THEN l
    ELSE Only({WithExtrasKeeping(
                   IF name \in DOMAIN l THEN l
                   ELSE PutLabel(l, name, extras[i + 2]), extras, i + 2) :
               name \in {IF IsInternalLabel(extras[i + 1]) THEN extras[i + 1]
                         ELSE NormalizeLabel(extras[i + 1])}})

\* the loop over extras, i counting from 0 as in the code
RECURSIVE WithExtras(_, _, _)
WithExtras(l, extras, i) ==
    IF i >= Len(extras) \/ i + 1 >= Len(extras) THEN l
    ELSE Only({WithExtras(PutLabel(l, name, extras[i + 2]), extras, i + 2) :
               name \in {IF IsInternalLabel(extras[i + 1]) THEN extras[i + 1]
                         ELSE NormalizeLabel(extras[i + 1])}})

\* the slices that ranging over the map l can build: every order
Orderings(l) ==
    {s \in [1..Cardinality(DOMAIN l) -> {l[n] : n \in DOMAIN l}] :
        \A i, j \in DOMAIN s : s[i] = s[j] => i = j}

\* the map l of createAttributes before the final range over it
LabelMap(resourceAttributes, attributes, externalLabels, extras) ==
    WithExtras(
        WithExternalLabels(
            WithInstanceLabel(
                WithJobLabel(
                    AttributeLabels(NoLabels, SortMap(attributes, 2), 1),
                    resourceAttributes),
                resourceAttributes),
            externalLabels),
        extras, 0)

\* createAttributes(resource, attributes, externalLabels, extras...): the
\* slices it can return
createAttributes(resourceAttributes, attributes, externalLabels, extras) ==
    Only({Orderings(l) :
          l \in {LabelMap(resourceAttributes, attributes, externalLabels,
                          extras)}})

NoExternalLabels == [n \in {} |-> ""]

\* byBucketBoundsData.Less, and sort.Sort on the short slice
RECURSIVE SiftBoundLeft(_, _)
SiftBoundLeft(m, j) ==
    IF j > 1 /\ ~BoundLeq(m[j - 1].bound, m[j].bound)
    THEN SiftBoundLeft([m EXCEPT ![j] = m[j - 1], ![j - 1] = m[j]], j - 1)
    ELSE m

RECURSIVE SortBucketBounds(_, _)
SortBucketBounds(m, i) ==
    IF i > Len(m) THEN m
    ELSE Only({SortBucketBounds(b, i + 1) : b \in {SiftBoundLeft(m, i)}})

\* addExemplar: the exemplar goes to the first bucket, from the i-th on, that
\* has samples and a bound at or above its value
RECURSIVE addExemplar(_, _, _, _)
addExemplar(ts, bounds, exemplar, i) ==
    IF i > Len(bounds) THEN ts
    ELSE LET sig == bounds[i].sig
         IN  IF /\ sig \in DOMAIN ts
                /\ ts[sig].Samples # <<>>
                /\ BoundLeq(Finite(exemplar.Value), bounds[i].bound)
             THEN [ts EXCEPT ![sig].Exemplars = Append(@, exemplar)]
             ELSE addExemplar(ts, bounds, exemplar, i + 1)

RECURSIVE addEachExemplar(_, _, _, _)
addEachExemplar(ts, bounds, exemplars, e) ==
    IF e > Len(exemplars) THEN ts
    ELSE Only({addEachExemplar(added, bounds, exemplars, e + 1) :
               added \in {addExemplar(ts, bounds, exemplars[e], 1)}})

\* addExemplars that leaves the buckets in the order it gets them
addExemplarsUnsorted(ts, isNil, exemplars, bounds) ==
    IF isNil \/ bounds = <<>> \/ exemplars = <<>> THEN ts
    ELSE addEachExemplar(ts, bounds, exemplars, 1)

\* addExemplars(tsMap, exemplars, bucketBoundsData); getPromExemplars returns
\* the nil slice for a data point without exemplars
addExemplars(ts, isNil, exemplars, bounds) ==
    IF isNil \/ bounds = <<>> \/ exemplars = <<>> THEN ts
    ELSE addEachExemplar(ts, SortBucketBounds(bounds, 2), exemplars, 1)

\* the loop condition of addSingleHistogramDataPoint with the last bound
\* left out
PairedBoundButLast(p, i) ==
    i + 1 < Len(p.ExplicitBounds) /\ i < Len(p.BucketCounts)

\* i < pt.ExplicitBounds().Len() && i < pt.BucketCounts().Len()
PairedBound(p, i) ==
    i < Len(p.ExplicitBounds) /\ i < Len(p.BucketCounts)

\* a bucket value that is the count of the bucket alone
CountOfBucket(cumulative, count) == count

\* cumulativeCount += pt.BucketCounts().At(i)
Accumulate(cumulative, count) == cumulative + count

\* the sample value: StaleNaN under the no-recorded-value flag
SampleValue(p, n) == IF p.NoRecordedValue THEN StaleNaN ELSE Float(n)

HistogramType == "Histogram"   \* metric.Type().String()
baseName == "h"                \* BuildPromCompliantName(metric, namespace)

\* convertTimeStamp: nanoseconds to milliseconds
convertTimeStamp(timestamp) == timestamp \div 1000000

----------------------------------------------------------------------------
(* SpecHistogram: addSingleHistogramDataPoint on one data point, statement by
   statement; tsMap is empty or holds the _count series of an earlier data
   point of the metric. Sample values are whole numbers. *)

RECURSIVE SumOfCounts(_, _)
SumOfCounts(counts, n) ==
    IF n = 0 THEN 0 ELSE SumOfCounts(counts, n - 1) + counts[n]

Point(bounds, counts, hasSum, noRecordedValue, attributes, exemplars) ==
    [ExplicitBounds |-> bounds, BucketCounts |-> counts,
     HasSum |-> hasSum, Sum |-> 10,
     Count |-> SumOfCounts(counts, Len(counts)),
     NoRecordedValue |-> noRecordedValue,
     Attributes |-> attributes, Exemplars |-> exemplars,
     Timestamp |-> 2000000]

NoAttributes == <<>>
OneAttribute == <<KeyValue("a.b", StrValue("x"))>>

\* bounds 1.5, 2, 4 with counts 4, 2, 3, 7
ExamplePoint ==
    Point(<<15, 20, 40>>, <<4, 2, 3, 7>>, TRUE, FALSE, NoAttributes, <<>>)

HistogramPoints ==
    {ExamplePoint} \cup
    {Point(bounds, counts, hasSum, noRecordedValue, attributes, exemplars) :
        bounds \in SeqsUpTo({15, 20}, MaxBounds),
        counts \in SeqsUpTo({1, 2}, MaxCounts),
        hasSum \in BOOLEAN, noRecordedValue \in BOOLEAN,
        attributes \in {NoAttributes, OneAttribute},
        exemplars \in {<<>>, <<[Value |-> 17]>>}}

EmptyMap == [k \in {} |-> TimeSeries(<<>>, <<>>)]

\* tsMap after the _count sample of an earlier data point with these attributes
EarlierCount(attributes) ==
    LET labels == CHOOSE l \in createAttributes(<<>>, attributes, NoExternalLabels,
                                   <<nameStr, baseName \o countStr>>) : TRUE
    IN  addSample(EmptyMap, FALSE, <<[Value |-> Float(0), Timestamp |-> 1]>>,
                  <<labels>>, HistogramType).tsMap

InitHistogram ==
    /\ IdleAttrs
    /\ IdleExemplars
    /\ IdleMatch
    /\ IdleOthers
    /\ IdleLex
    /\ tsNil = FALSE
    /\ pt \in HistogramPoints
    /\ tsMap \in {EmptyMap, EarlierCount(pt.Attributes)}
    /\ tsMap0 = tsMap
    /\ addCalls = 0
    /\ addLog = <<>>
    /\ lastAdd = <<>>
    /\ histPc = "sum"
    /\ histI = 0
    /\ cumulativeCount = 0
    /\ bucketBounds = <<>>
    /\ emitted = <<>>

addFields == <<tsNil, tsMap0, addCalls, addLog, lastAdd, pt>>

Emit(kind, sample, sig) == [kind |-> kind, sample |-> sample, sig |-> sig]

\* if pt.HasSum() { ... addSample(tsMap, sum, sumlabels, ...) }
HistSum ==
    /\ histPc = "sum"
    /\ IF pt.HasSum
       THEN \E sum \in {[Value |-> SampleValue(pt, pt.Sum),
                         Timestamp |-> convertTimeStamp(pt.Timestamp)]},
               sumlabels \in createAttributes(<<>>, pt.Attributes, NoExternalLabels,
                                 <<nameStr, baseName \o sumStr>>) :
                \E r \in {addSample(tsMap, tsNil, <<sum>>, <<sumlabels>>,
                                    HistogramType)} :
                    /\ tsMap' = r.tsMap
                    /\ emitted' = Append(emitted, Emit("sum", sum, r.sig))
       ELSE UNCHANGED <<tsMap, emitted>>
    /\ histPc' = "count"
    /\ UNCHANGED <<addFields, histI, cumulativeCount, bucketBounds, notSeries>>

\* the _count sample
HistCount ==
    /\ histPc = "count"
    /\ \E count \in {[Value |-> SampleValue(pt, pt.Count),
                      Timestamp |-> convertTimeStamp(pt.Timestamp)]},
          countlabels \in createAttributes(<<>>, pt.Attributes, NoExternalLabels,
                              <<nameStr, baseName \o countStr>>) :
        \E r \in {addSample(tsMap, tsNil, <<count>>, <<countlabels>>,
                            HistogramType)} :
            /\ tsMap' = r.tsMap
            /\ emitted' = Append(emitted, Emit("count", count, r.sig))
    /\ histPc' = "buckets"
    /\ UNCHANGED <<addFields, histI, cumulativeCount, bucketBounds, notSeries>>

\* one turn of the loop over the bounds
HistBucket ==
    /\ histPc = "buckets"
    /\ PairedBound(pt, histI)
    /\ \E bnd \in {pt.ExplicitBounds[histI + 1]},
          cumulative \in {Accumulate(cumulativeCount,
                                     pt.BucketCounts[histI + 1])} :
        \E bucket \in {[Value |-> SampleValue(pt, cumulative),
                        Timestamp |-> convertTimeStamp(pt.Timestamp)]},
           labels \in createAttributes(<<>>, pt.Attributes, NoExternalLabels,
                          <<nameStr, baseName \o bucketStr,
                            leStr, FormatFloat(bnd)>>) :
            \E r \in {addSample(tsMap, tsNil, <<bucket>>, <<labels>>,
                                HistogramType)} :
                /\ tsMap' = r.tsMap
                /\ cumulativeCount' = cumulative
                /\ bucketBounds' = Append(bucketBounds,
                                       [sig |-> r.sig, bound |-> Finite(bnd)])
                /\ emitted' = Append(emitted, Emit("bucket", bucket, r.sig))
    /\ histI' = histI + 1
    /\ UNCHANGED <<addFields, histPc, notSeries>>

\* after the loop: the le="+Inf" bucket
HistInf ==
    /\ histPc = "buckets"
    /\ ~PairedBound(pt, histI)
    /\ \E cumulative \in {IF ~pt.NoRecordedValue /\ Len(pt.BucketCounts) > 0
                          THEN Accumulate(cumulativeCount,
                                   pt.BucketCounts[Len(pt.BucketCounts)])
                          ELSE cumulativeCount} :
        \E infBucket \in {[Value |-> SampleValue(pt, cumulative),
                           Timestamp |-> convertTimeStamp(pt.Timestamp)]},
           infLabels \in createAttributes(<<>>, pt.Attributes, NoExternalLabels,
                             <<nameStr, baseName \o bucketStr,
                               leStr, pInfStr>>) :
            \E r \in {addSample(tsMap, tsNil, <<infBucket>>, <<infLabels>>,
                                HistogramType)} :
                /\ tsMap' = r.tsMap
                /\ cumulativeCount' = cumulative
                /\ bucketBounds' = Append(bucketBounds,
                                       [sig |-> r.sig, bound |-> PosInf])
                /\ emitted' = Append(emitted, Emit("inf", infBucket, r.sig))
    /\ histPc' = "exemplars"
    /\ UNCHANGED <<addFields, histI, notSeries>>

\* addExemplars(tsMap, promExemplars, bucketBounds), and the return
HistExemplars ==
    /\ histPc = "exemplars"
    /\ tsMap' = addExemplars(tsMap, tsNil, pt.Exemplars, bucketBounds)
    /\ histPc' = "done"
    /\ UNCHANGED <<addFields, histI, cumulativeCount, bucketBounds, emitted,
                   notSeries>>

NextHistogram ==
    HistSum \/ HistCount \/ HistBucket \/ HistInf \/ HistExemplars

SpecHistogram == InitHistogram /\ [][NextHistogram]_vars

Emitted(kind) == SelectSeq(emitted, LAMBDA e : e.kind = kind)

HistReturned == histPc \in {"exemplars", "done"}

PairedBounds == IF Len(pt.ExplicitBounds) < Len(pt.BucketCounts)
                THEN Len(pt.ExplicitBounds) ELSE Len(pt.BucketCounts)

\* the value of the label `le` of the time series under sig
LeOf(sig) == (CHOOSE l \in LabelSet(tsMap[sig].Labels) : l.Name = leStr).Value

\* C14: without the no-recorded-value flag, the bucket sample emitted for the
\* i-th explicit bound has the value BucketCounts[0] + ... + BucketCounts[i]
\* and sits in the series labelled with that bound, so the bucket values never
\* decrease in bound order; bounds 1.5, 2, 4 with counts 4, 2, 3, 7 give
\* 4, 6, 9 and 16 for +Inf.
C14_BucketsAreCumulative ==
    (histPc # "idle" /\ ~pt.NoRecordedValue) =>
        LET buckets == Emitted("bucket")
        IN  /\ Len(buckets) = IF HistReturned THEN PairedBounds ELSE histI
            /\ \A i \in 1..Len(buckets) :
                /\ buckets[i].sample.Value =
                       Float(SumOfCounts(pt.BucketCounts, i))
                /\ LeOf(buckets[i].sig) = FormatFloat(pt.ExplicitBounds[i])
                /\ \E n \in DOMAIN tsMap[buckets[i].sig].Samples :
                       tsMap[buckets[i].sig].Samples[n] = buckets[i].sample
            /\ \A i, j \in 1..Len(buckets) :
                   i <= j => buckets[i].sample.Value.n <= buckets[j].sample.Value.n
            /\ (HistReturned /\ pt = ExamplePoint) =>
                /\ [i \in 1..Len(buckets) |-> buckets[i].sample.Value.n]
                       = <<4, 6, 9>>
                /\ Emitted("inf")[1].sample.Value.n = 16

\* the example data point, converted
C14_Witness ==
    /\ histPc = "done"
    /\ pt = ExamplePoint
    /\ Len(Emitted("bucket")) = 3
    /\ Emitted("bucket")[3].sample.Value = Float(9)
    /\ LeOf(Emitted("bucket")[1].sig) = "1.5"
    /\ Emitted("inf")[1].sample.Value = Float(16)

\* C15: without the no-recorded-value flag and whatever the lengths of
\* ExplicitBounds and BucketCounts, the le="+Inf" sample equals the sum of all
\* entries of BucketCounts and is not smaller than any finite bucket value.
C15_InfBucketIsTotalCount ==
    (HistReturned /\ ~pt.NoRecordedValue) =>
        LET inf == Emitted("inf")[1].sample.Value
            buckets == Emitted("bucket")
        IN  /\ inf = Float(SumOfCounts(pt.BucketCounts, Len(pt.BucketCounts)))
            /\ \A i \in 1..Len(buckets) : buckets[i].sample.Value.n <= inf.n

RECURSIVE SampleCount(_, _)
SampleCount(ts, sigs) ==
    IF sigs = {} THEN 0
    ELSE LET sig == CHOOSE s \in sigs : TRUE
         IN  Len(ts[sig].Samples) + SampleCount(ts, sigs \ {sig})

SamplesAdded == SampleCount(tsMap, DOMAIN tsMap) - SampleCount(tsMap0, DOMAIN tsMap0)

----------------------------------------------------------------------------
(* filtermatcher: AttributesMatcher.Match.

   A pcommon.Map of the matcher model is a function from its keys. An AttributeMatcher is [Key, AttributeValue, StringFilter],
   a nil AttributeValue or StringFilter <<>>, a set one the tuple of what it
   holds; a filterset.FilterSet is the set of strings it matches. *)

MaxProperties == 2   \* most entries of an AttributesMatcher

errUnexpectedAttributeType == "unexpected attribute type"

\* attributeStringValue(attr): [value, err]
attributeStringValue(attr) ==
    CASE attr.type = "Str" -> [value |-> attr.str, err |-> NIL]
      [] attr.type = "Bool" -> [value |-> FormatBool(attr.bool), err |-> NIL]
      [] attr.type = "Double" -> [value |-> FormatFloat(attr.num), err |-> NIL]
      [] attr.type = "Int" -> [value |-> FormatInt(attr.num), err |-> NIL]
      [] OTHER -> [value |-> "", err |-> errUnexpectedAttributeType]

\* StringFilter.Matches(value)
Matches(filter, value) == value \in filter

\* pcommon.Value.Equal
Equal(a, b) == a = b

\* the body of the loop of Match with the AttributeValue looked at first
PropertyMatchesValueFirst(property, m) ==
    /\ property.Key \in DOMAIN m
    /\ IF property.AttributeValue # <<>>
       THEN Equal(m[property.Key], property.AttributeValue[1])
       ELSE IF property.StringFilter # <<>>
            THEN \E r \in {attributeStringValue(m[property.Key])} :
                     r.err = NIL /\ Matches(property.StringFilter[1], r.value)
            ELSE TRUE

\* the body of the loop of Match: FALSE where it returns false
PropertyMatches(property, m) ==
    /\ property.Key \in DOMAIN m
    /\ IF property.StringFilter # <<>>
       THEN \E r \in {attributeStringValue(m[property.Key])} :
                r.err = NIL /\ Matches(property.StringFilter[1], r.value)
       ELSE IF property.AttributeValue # <<>>
            THEN Equal(m[property.Key], property.AttributeValue[1])
            ELSE TRUE

----------------------------------------------------------------------------
(* SpecMatch: one call of Match, statement by statement *)

MatchKeys == {"k1", "k2"}

MatchValues ==
    {StrValue("1"), StrValue("a"), BoolValue(TRUE), IntValue(1),
     DoubleValue(10), DoubleValue(15), MapValue}

Maps == UNION {[keys -> MatchValues] : keys \in SUBSET MatchKeys}

AttributeMatcher ==
    [Key : MatchKeys,
     AttributeValue : {<<>>, <<IntValue(1)>>},
     StringFilter : {<<>>, <<{"1", "true"}>>}]

InitMatch ==
    /\ IdleAttrs
    /\ IdleExemplars
    /\ IdleOthers
    /\ IdleLex
    /\ IdleSeries
    /\ ma \in SeqsUpTo(AttributeMatcher, MaxProperties)
    /\ attrs \in Maps
    /\ matchPc = "start"
    /\ matchI = 0
    /\ matchResult = FALSE

\* if len(ma) == 0 { return true }
MatchNothingToMatch ==
    /\ matchPc = "start"
    /\ Len(ma) = 0
    /\ matchResult' = TRUE
    /\ matchPc' = "done"
    /\ UNCHANGED <<ma, attrs, matchI, notMatch>>

\* if attrs.Len() == 0 { return false }, else on to the loop
MatchNoAttributes ==
    /\ matchPc = "start"
    /\ Len(ma) # 0
    /\ IF Cardinality(DOMAIN attrs) = 0
       THEN matchResult' = FALSE /\ matchPc' = "done"
       ELSE matchResult' = matchResult /\ matchPc' = "loop"
    /\ UNCHANGED <<ma, attrs, matchI, notMatch>>

\* one turn of the loop over ma
MatchProperty ==
    /\ matchPc = "loop"
    /\ matchI < Len(ma)
    /\ IF PropertyMatches(ma[matchI + 1], attrs)
       THEN matchI' = matchI + 1 /\ UNCHANGED <<matchPc, matchResult>>
       ELSE matchResult' = FALSE /\ matchPc' = "done" /\ matchI' = matchI
    /\ UNCHANGED <<ma, attrs, notMatch>>

\* return true after the loop
MatchAll ==
    /\ matchPc = "loop"
    /\ matchI = Len(ma)
    /\ matchResult' = TRUE
    /\ matchPc' = "done"
    /\ UNCHANGED <<ma, attrs, matchI, notMatch>>

NextMatcher == MatchNothingToMatch \/ MatchNoAttributes \/ MatchProperty \/ MatchAll

SpecMatch == InitMatch /\ [][NextMatcher]_vars

\* the string form of a str, bool, double or int attribute
StringForm(v) ==
    CASE v = StrValue("1") -> "1"
      [] v = StrValue("a") -> "a"
      [] v = BoolValue(TRUE) -> "true"
      [] v = IntValue(1) -> "1"
      [] v = DoubleValue(10) -> "1"
      [] v = DoubleValue(15) -> "1.5"

\* what the claim asks of one entry of the matcher
EntryHolds(entry) ==
    /\ entry.Key \in DOMAIN attrs
    /\ IF entry.StringFilter # <<>>
       THEN /\ attrs[entry.Key].type \in {"Str", "Bool", "Double", "Int"}
            /\ StringForm(attrs[entry.Key]) \in entry.StringFilter[1]
       ELSE IF entry.AttributeValue # <<>>
            THEN attrs[entry.Key] = entry.AttributeValue[1]
            ELSE TRUE

\* C16: Match returns true exactly when the matcher is empty or every entry
\* has its Key in attrs and, for that attribute, the StringFilter (if set)
\* matches the string form of a str, bool, double or int, else the
\* AttributeValue (if set) equals it, else the key alone suffices; a non-empty
\* matcher never matches an empty map; Match changes neither attrs nor the
\* matcher.
C16_MatchSemantics ==
    /\ [](matchPc = "done" =>
            /\ matchResult = (Len(ma) = 0 \/ \A i \in 1..Len(ma) : EntryHolds(ma[i]))
            /\ (Len(ma) # 0 /\ DOMAIN attrs = {}) => ~matchResult)
    /\ [][attrs' = attrs /\ ma' = ma]_vars

\* a matcher of two entries, one with both a filter and a value set, matched
\* by a double through its string form and by key existence
C16_Witness ==
    /\ matchPc = "done"
    /\ matchResult
    /\ Len(ma) = 2
    /\ ma[1].StringFilter # <<>>
    /\ ma[1].AttributeValue # <<>>
    /\ attrs[ma[1].Key] = DoubleValue(10)
    /\ ma[2].StringFilter = <<>>
    /\ ma[2].AttributeValue = <<>>
    /\ ma[2].Key # ma[1].Key

----------------------------------------------------------------------------
(* SpecExemplars: one call of addExemplars. The bucket bounds are those that
   addSingleHistogramDataPoint collects: the signature of a bucket is that of
   the series labelled with its bound, so equal bounds have equal signatures;
   they come in any order. A series of tsMap may lack samples. *)

MaxBuckets == 3      \* most entries of bucketBoundsData
MaxExemplars == 2    \* most exemplars of a call

\* the signature addSample returns for the bucket series of a bound
BucketSignature(b) ==
    HistogramType \o "-" \o nameStr \o "-" \o baseName \o bucketStr
        \o "-" \o leStr \o "-"
        \o (IF b.inf THEN pInfStr ELSE FormatFloat(b.tenths))

BucketBounds == {Finite(10), Finite(20), PosInf}

BucketBoundsData(b) == [sig |-> BucketSignature(b), bound |-> b]

\* the exemplars of a call: the i-th carries timestamp i
ExemplarSlices ==
    UNION {{[i \in 1..n |-> [Value |-> values[i], Timestamp |-> i]] :
                values \in [1..n -> {5, 15, 25}]} : n \in 0..MaxExemplars}

\* a bucket series: its le label, and samples or none
BucketSeries(b, samples) ==
    TimeSeries(<<[Name |-> nameStr, Value |-> baseName \o bucketStr],
                 [Name |-> leStr,
                  Value |-> IF b.inf THEN pInfStr ELSE FormatFloat(b.tenths)]>>,
               samples)

SeriesMaps ==
    UNION {{[sig \in {BucketSignature(b) : b \in present} |->
                LET b == CHOOSE c \in present : BucketSignature(c) = sig
                IN  BucketSeries(b, IF b \in sampled
                                    THEN <<[Value |-> Float(1), Timestamp |-> 1]>>
                                    ELSE <<>>)] :
            sampled \in SUBSET present} : present \in SUBSET BucketBounds}

notSeriesNorExemplars ==
    <<bindVars, heapVars, workVars, capVars, parseVars, evalVars, lexVars,
      matchVars, attrsVars>>

InitExemplars ==
    /\ IdleAttrs
    /\ IdleOthers
    /\ IdleLex
    /\ IdleMatch
    /\ tsNil \in BOOLEAN
    /\ tsMap \in IF tsNil THEN {EmptyMap} ELSE SeriesMaps
    /\ tsMap0 = tsMap
    /\ bucketBounds \in SeqsUpTo({BucketBoundsData(b) : b \in BucketBounds},
                                 MaxBuckets)
    /\ passedBounds = bucketBounds
    /\ promExemplars \in ExemplarSlices
    /\ exPc = "call"
    /\ addCalls = 0
    /\ addLog = <<>>
    /\ lastAdd = <<>>
    /\ pt = <<>>
    /\ histPc = "idle"
    /\ histI = 0
    /\ cumulativeCount = 0
    /\ emitted = <<>>

\* addExemplars(tsMap, promExemplars, bucketBounds): it sorts the caller's
\* slice unless it returns at once
AddExemplars ==
    /\ exPc = "call"
    /\ tsMap' = addExemplars(tsMap, tsNil, promExemplars, bucketBounds)
    /\ bucketBounds' = IF tsNil \/ bucketBounds = <<>> \/ promExemplars = <<>>
                       THEN bucketBounds
                       ELSE SortBucketBounds(bucketBounds, 2)
    /\ exPc' = "done"
    /\ UNCHANGED <<tsNil, tsMap0, addCalls, addLog, lastAdd, pt, histPc, histI,
                   cumulativeCount, emitted, promExemplars, passedBounds,
                   notSeriesNorExemplars>>

NextExemplars == AddExemplars

SpecExemplars == InitExemplars /\ [][NextExemplars]_vars

\* the buckets an exemplar can go to: series in tsMap, with samples, bound at
\* or above the value
BucketsFor(e) ==
    {b \in {passedBounds[i] : i \in DOMAIN passedBounds} :
        /\ b.sig \in DOMAIN tsMap0
        /\ tsMap0[b.sig].Samples # <<>>
        /\ BoundLeq(Finite(e.Value), b.bound)}

\* the signature of the series the claim gives the exemplar, "" for none
SeriesFor(e) ==
    IF BucketsFor(e) = {} THEN ""
    ELSE (CHOOSE b \in BucketsFor(e) :
              \A c \in BucketsFor(e) : BoundLeq(b.bound, c.bound)).sig

\* C21: addExemplars appends each exemplar to at most one series, that of the
\* bucket with the smallest bound at or above its value among the buckets
\* whose series is in tsMap and has samples, whatever the order of
\* bucketBoundsData; each series gets its exemplars in input order; nothing
\* else changes, and nothing at all when tsMap, bucketBoundsData or exemplars
\* is nil.
C21_ExemplarsGoToSmallestBucket ==
    exPc = "done" =>
        /\ DOMAIN tsMap = DOMAIN tsMap0
        /\ \A sig \in DOMAIN tsMap :
            /\ tsMap[sig].Labels = tsMap0[sig].Labels
            /\ tsMap[sig].Samples = tsMap0[sig].Samples
            /\ tsMap[sig].Exemplars =
                   tsMap0[sig].Exemplars
                       \o SelectSeq(promExemplars, LAMBDA e : SeriesFor(e) = sig)
        /\ (tsNil \/ passedBounds = <<>> \/ promExemplars = <<>>)
               => tsMap = tsMap0

\* bounds passed in descending order; the first exemplar fits two buckets with
\* samples and goes to the smaller, the second skips a series without samples
C21_Witness ==
    /\ exPc = "done"
    /\ Len(passedBounds) = 3
    /\ passedBounds[1].bound = PosInf
    /\ passedBounds[2].bound = Finite(20)
    /\ passedBounds[3].bound = Finite(10)
    /\ bucketBounds # passedBounds
    /\ DOMAIN tsMap = {BucketSignature(b) : b \in BucketBounds}
    /\ tsMap[BucketSignature(Finite(10))].Samples = <<>>
    /\ Len(promExemplars) = 2
    /\ promExemplars[1].Value = 15
    /\ promExemplars[2].Value = 5
    /\ tsMap[BucketSignature(Finite(20))].Exemplars = promExemplars
    /\ tsMap[BucketSignature(PosInf)].Exemplars = <<>>

----------------------------------------------------------------------------
(* createAttributes, statement by statement. The pcommon.Maps live in caMaps
   under their references: the attributes handed in, the attributes of the
   resource, and the clone each caller makes. SpecAttributes is one call on
   many inputs; SpecClone is every caller at once on the same attributes. *)

NumCallers == 2        \* callers of createAttributes at the same time
MaxAttributes == 2     \* most entries of the attributes map
MaxPairs == 2          \* most (name, value) pairs in extras
MaxResultLabels == 3   \* most label names the inputs of a call can give

Callers == 1..NumCallers

Attributes == <<"attributes", 0>>
ResourceAttributes == <<"resource", 0>>

\* a clone that is the attributes map itself
CloneInPlace(w) == Attributes

\* cloneAttributes := pcommon.NewMap(): a map of the caller's own
CloneOf(w) == <<"clone", w>>

MapRefs == {Attributes, ResourceAttributes} \cup {CloneOf(w) : w \in Callers}

\* attributes.CopyTo(cloneAttributes)
CaClone ==
    \E w \in Callers :
        /\ caPc[w] = "clone"
        /\ caMaps' = [caMaps EXCEPT ![CloneOf(w)] = caMaps[Attributes]]
        /\ caPc' = [caPc EXCEPT ![w] = "sort"]
        /\ UNCHANGED <<caExternal, caExtras, caL, caResult, notAttrs>>

\* cloneAttributes.Sort()
CaSort ==
    \E w \in Callers :
        /\ caPc[w] = "sort"
        /\ caMaps' = [caMaps EXCEPT ![CloneOf(w)] = SortMap(@, 2)]
        /\ caPc' = [caPc EXCEPT ![w] = "range"]
        /\ UNCHANGED <<caExternal, caExtras, caL, caResult, notAttrs>>

\* cloneAttributes.Range(...)
CaRange ==
    \E w \in Callers :
        /\ caPc[w] = "range"
        /\ caL' = [caL EXCEPT ![w] =
                      AttributeLabels(NoLabels, caMaps[CloneOf(w)], 1)]
        /\ caPc' = [caPc EXCEPT ![w] = "service"]
        /\ UNCHANGED <<caMaps, caExternal, caExtras, caResult, notAttrs>>

\* job and instance from the attributes of the resource
CaService ==
    \E w \in Callers :
        /\ caPc[w] = "service"
        /\ caL' = [caL EXCEPT ![w] =
                      WithInstanceLabel(
                          WithJobLabel(@, caMaps[ResourceAttributes]),
                          caMaps[ResourceAttributes])]
        /\ caPc' = [caPc EXCEPT ![w] = "external"]
        /\ UNCHANGED <<caMaps, caExternal, caExtras, caResult, notAttrs>>

\* for key, value := range externalLabels
CaExternalLabels ==
    \E w \in Callers :
        /\ caPc[w] = "external"
        /\ caL' = [caL EXCEPT ![w] = WithExternalLabels(@, caExternal)]
        /\ caPc' = [caPc EXCEPT ![w] = "extras"]
        /\ UNCHANGED <<caMaps, caExternal, caExtras, caResult, notAttrs>>

\* the loop over extras
CaExtras ==
    \E w \in Callers :
        /\ caPc[w] = "extras"
        /\ caL' = [caL EXCEPT ![w] = WithExtras(@, caExtras[w], 0)]
        /\ caPc' = [caPc EXCEPT ![w] = "return"]
        /\ UNCHANGED <<caMaps, caExternal, caExtras, caResult, notAttrs>>

\* the range over l into s, and return s
CaReturn ==
    \E w \in Callers :
        /\ caPc[w] = "return"
        /\ \E s \in Orderings(caL[w]) :
               caResult' = [caResult EXCEPT ![w] = s]
        /\ caPc' = [caPc EXCEPT ![w] = "done"]
        /\ UNCHANGED <<caMaps, caExternal, caExtras, caL, notAttrs>>

NextAttributes ==
    \/ CaClone
    \/ CaSort
    \/ CaRange
    \/ CaService
    \/ CaExternalLabels
    \/ CaExtras
    \/ CaReturn

AttributeKeys == {"a.b", "a_b", "job"}

\* attribute maps: keys that differ, in any order; the first value a string,
\* the second an int
AttributeMaps ==
    {m \in SeqsUpTo([Key : AttributeKeys,
                     Value : {StrValue("x"), IntValue(1)}], MaxAttributes) :
        /\ \A i, j \in DOMAIN m : m[i].Key = m[j].Key => i = j
        /\ \A i \in DOMAIN m :
               m[i].Value = IF i = 1 THEN StrValue("x") ELSE IntValue(1)}

ResourceMaps ==
    {<<>>,
     <<KeyValue(AttributeServiceName, StrValue("svc"))>>,
     <<KeyValue(AttributeServiceNamespace, StrValue("ns"))>>,
     <<KeyValue(AttributeServiceNamespace, StrValue("ns")),
       KeyValue(AttributeServiceName, StrValue("svc"))>>,
     <<KeyValue(AttributeServiceName, StrValue("svc")),
       KeyValue(AttributeServiceInstanceID, StrValue("i1"))>>}

ExternalLabelMaps ==
    UNION {[keys -> {"ext"}] : keys \in SUBSET {"job", "a_b", "env"}}

ExtraNames == {"__a.b__", "a.b", "env"}

\* extras: pairs of a name and a value, the i-th value "v" then "w" and so
\* on, and perhaps one more string without a value
RECURSIVE Flatten(_)
Flatten(pairs) ==
    IF pairs = <<>> THEN <<>>
    ELSE <<Head(pairs)[1], Head(pairs)[2]>> \o Flatten(Tail(pairs))

ExtraValues == <<"v", "w", "u", "t">>

ExtrasInputs ==
    UNION {{Flatten([i \in 1..n |-> <<names[i], ExtraValues[i]>>]) \o trailing :
                names \in [1..n -> ExtraNames],
                trailing \in {<<>>, <<"env">>}} : n \in 0..MaxPairs}

\* the names of the labels the inputs of a call can give
NamesOf(attributes, resourceAttributes, externalLabels, extras) ==
    {NormalizeLabel(attributes[i].Key) : i \in DOMAIN attributes}
        \cup (IF MapHas(resourceAttributes, AttributeServiceName)
              THEN {JobLabel} ELSE {})
        \cup (IF MapHas(resourceAttributes, AttributeServiceInstanceID)
              THEN {InstanceLabel} ELSE {})
        \cup DOMAIN externalLabels
        \cup {IF IsInternalLabel(extras[i]) THEN extras[i]
              ELSE NormalizeLabel(extras[i]) :
                  i \in {j \in DOMAIN extras : j % 2 = 1 /\ j < Len(extras)}}

IdleButAttributes ==
    /\ IdleOthers
    /\ IdleLex
    /\ IdleSeries
    /\ IdleMatch
    /\ IdleExemplars

\* one caller; the others do not call
InitAttributes ==
    /\ IdleButAttributes
    /\ \E attributes \in AttributeMaps, resourceAttributes \in ResourceMaps :
        /\ caMaps = [r \in MapRefs |->
                        IF r = Attributes THEN attributes
                        ELSE IF r = ResourceAttributes THEN resourceAttributes
                        ELSE <<>>]
        /\ caExternal \in ExternalLabelMaps
        /\ caExtras \in [Callers -> ExtrasInputs]
        /\ \A w \in Callers : caExtras[w] = caExtras[1]
        /\ Cardinality(NamesOf(attributes, resourceAttributes, caExternal,
                               caExtras[1])) <= MaxResultLabels
    /\ caPc = [w \in Callers |-> IF w = 1 THEN "clone" ELSE "off"]
    /\ caL = [w \in Callers |-> NoLabels]
    /\ caResult = [w \in Callers |-> <<>>]

SpecAttributes == InitAttributes /\ [][NextAttributes]_vars

\* every caller calls, on the same attributes, resource and settings
InitClone ==
    /\ IdleButAttributes
    /\ \E attributes \in AttributeMaps,
          resourceAttributes \in {<<>>, <<KeyValue(AttributeServiceName,
                                                   StrValue("svc"))>>} :
        caMaps = [r \in MapRefs |->
                     IF r = Attributes THEN attributes
                     ELSE IF r = ResourceAttributes THEN resourceAttributes
                     ELSE <<>>]
    /\ caExternal = NoExternalLabels
    /\ caExtras = [w \in Callers |-> <<nameStr, baseName>>]
    /\ caPc = [w \in Callers |-> "clone"]
    /\ caL = [w \in Callers |-> NoLabels]
    /\ caResult = [w \in Callers |-> <<>>]

SpecClone == InitClone /\ [][NextAttributes]_vars

\* the label name an extras name stands for
ExtraLabelName(name) ==
    IF IsInternalLabel(name) THEN name ELSE NormalizeLabel(name)

\* where the complete pairs of an extras slice start
PairsOf(extras) == {i \in DOMAIN extras : i % 2 = 1 /\ i < Len(extras)}

\* the last complete pair of extras that names the label
LastPairFor(extras, labelName) ==
    CHOOSE i \in PairsOf(extras) :
        /\ ExtraLabelName(extras[i]) = labelName
        /\ \A j \in PairsOf(extras) :
               ExtraLabelName(extras[j]) = labelName => j <= i

ResultNames(w) == {caResult[w][k].Name : k \in DOMAIN caResult[w]}

\* the value of the label of that name in the result of caller w
ResultValue(w, labelName) ==
    caResult[w][CHOOSE k \in DOMAIN caResult[w] :
                    caResult[w][k].Name = labelName].Value

\* C22: every complete (name, value) pair of extras gives the result exactly
\* one label of that name (sanitized, a name of the form __x__ verbatim) with
\* the value of the last pair of that name, whatever the attributes, the
\* resource and the external labels hold; a trailing string without a value
\* gives no label; no two labels of the result have the same name.
C22_ExtrasOverwrite ==
    \A w \in Callers : caPc[w] = "done" =>
        /\ \A i \in PairsOf(caExtras[w]) :
            LET labelName == ExtraLabelName(caExtras[w][i])
            IN  /\ Cardinality({k \in DOMAIN caResult[w] :
                                    caResult[w][k].Name = labelName}) = 1
                /\ ResultValue(w, labelName) =
                       caExtras[w][LastPairFor(caExtras[w], labelName) + 1]
        /\ \A j, k \in DOMAIN caResult[w] :
               caResult[w][j].Name = caResult[w][k].Name => j = k
        /\ ResultNames(w) = NamesOf(caMaps[Attributes],
                                    caMaps[ResourceAttributes],
                                    caExternal, caExtras[w])

\* two pairs that name a_b, over an attribute and an external label of that
\* name, an internal name kept as it is, and a trailing "env"
C22_Witness ==
    /\ caPc[1] = "done"
    /\ caExtras[1] = <<"a.b", "v", "a.b", "w", "env">>
    /\ MapHas(caMaps[Attributes], "a_b")
    /\ "a_b" \in DOMAIN caExternal
    /\ ResultValue(1, "a_b") = "w"
    /\ "env" \notin ResultNames(1)
    /\ \E s \in {1} :
           /\ ExtraLabelName("__a.b__") = "__a.b__"
           /\ ExtraLabelName("a.b") = "a_b"

\* the values of the attributes that give the label, joined in key order
RECURSIVE JoinedFrom(_, _, _)
JoinedFrom(attributes, labelName, r) ==
    IF r > Len(KeyOrder) THEN <<>>
    ELSE (IF MapHas(attributes, KeyOrder[r])
             /\ NormalizeLabel(KeyOrder[r]) = labelName
          THEN <<AsString(MapGet(attributes, KeyOrder[r]))>>
          ELSE <<>>)
         \o JoinedFrom(attributes, labelName, r + 1)

RECURSIVE JoinWith(_, _)
JoinWith(texts, sep) ==
    IF Len(texts) = 1 THEN texts[1]
    ELSE texts[1] \o sep \o JoinWith(Tail(texts), sep)

FromService(labelName) ==
    \/ labelName = JobLabel
           /\ MapHas(caMaps[ResourceAttributes], AttributeServiceName)
    \/ labelName = InstanceLabel
           /\ MapHas(caMaps[ResourceAttributes], AttributeServiceInstanceID)

FromData(labelName) ==
    \/ FromService(labelName)
    \/ JoinedFrom(caMaps[Attributes], labelName, 1) # <<>>

\* what the data give the label: job and instance from the resource, else
\* the attributes
DataValue(labelName) ==
    IF labelName = JobLabel /\ FromService(labelName)
    THEN (IF MapHas(caMaps[ResourceAttributes], AttributeServiceNamespace)
          THEN "ns/" ELSE "") \o "svc"
    ELSE IF labelName = InstanceLabel /\ FromService(labelName)
    THEN "i1"
    ELSE JoinWith(JoinedFrom(caMaps[Attributes], labelName, 1), ";")

NamedByExtras(w, labelName) ==
    \E i \in PairsOf(caExtras[w]) : ExtraLabelName(caExtras[w][i]) = labelName

\* C23 as stated: a label that the data give has the value from the data
\* whenever an external label has its name.
C23_DataValueAlways ==
    \A w \in Callers : caPc[w] = "done" =>
        \A k \in DOMAIN caExternal :
            FromData(k) => ResultValue(w, k) = DataValue(k)

\* C23: an external label never replaces a label derived from the data: for
\* an external label k that no extras pair names, the result's value for k is
\* the one from the attributes or from service.name / service.instance.id if
\* there is one, and the external value otherwise; when an extras pair names
\* k the value is that of the pair.
C23_ExternalNeverReplaces ==
    \A w \in Callers : caPc[w] = "done" =>
        \A k \in DOMAIN caExternal :
            /\ k \in ResultNames(w)
            /\ ResultValue(w, k) =
                   IF NamedByExtras(w, k)
                   THEN caExtras[w][LastPairFor(caExtras[w], k) + 1]
                   ELSE IF FromData(k) THEN DataValue(k)
                   ELSE caExternal[k]

\* external job, a_b and env: job from service.name, a_b from two attributes
\* that collide, env from the settings
C23_Witness ==
    /\ caPc[1] = "done"
    /\ DOMAIN caExternal = {"job", "a_b", "env"}
    /\ caExtras[1] = <<>>
    /\ MapHas(caMaps[ResourceAttributes], AttributeServiceName)
    /\ caMaps[Attributes] = <<KeyValue("a_b", StrValue("x")),
                              KeyValue("a.b", IntValue(1))>>
    /\ ResultValue(1, "job") = "svc"
    /\ ResultValue(1, "a_b") = "1;x"
    /\ ResultValue(1, "env") = "ext"

\* C24: no step of createAttributes changes the attributes map (entries and
\* their order), the attributes of the resource or externalLabels: the sort
\* is done on the caller's own clone, so no other caller and no reader sees a
\* change.
C24_InputsUntouched ==
    [][/\ caMaps'[Attributes] = caMaps[Attributes]
       /\ caMaps'[ResourceAttributes] = caMaps[ResourceAttributes]
       /\ caExternal' = caExternal]_vars

\* every caller has returned; the attributes are still out of key order while
\* each clone is sorted
C24_Witness ==
    /\ \A w \in Callers : caPc[w] = "done"
    /\ caMaps[Attributes] # SortMap(caMaps[Attributes], 2)
    /\ \A w \in Callers : caMaps[CloneOf(w)] = SortMap(caMaps[Attributes], 2)

====
